---- MODULE Spec2Model ----
(***************************************************************************)
(* A model of the analytics pipeline of candle-based-backend: the candle   *)
(* resampler, the dividend frequency analyzer, the red-candle strategy     *)
(* simulator and the dividend income attributor, in the source variants    *)
(* the repository holds (api-gateway, backtesting-service,                 *)
(* dividend-service, market-data-service).                                 *)
(*                                                                         *)
(* Dates are day numbers (days since 1970-01-01); the calendar operators   *)
(* below compute what moment computes on them.  Prices and dividend        *)
(* amounts are integers (a fixed small unit).                              *)
(***************************************************************************)
EXTENDS Integers, Sequences, FiniteSets, TLC

VARIABLES
    component,      \* which part of the pipeline this behaviour exercises
    phase,          \* "input" while the inputs are assembled, then the operation's position
    candles,        \* the candle list handed to the resampler / the simulator
    timeframe,      \* '1D' | '1W' | '1M' | '3M' | '6M' | '1Y'
    resampled,      \* the resampler's output
    quantity,       \* quantityPerTrade
    transactions,   \* the simulator's transaction list (the attributor's input)
    simResult,      \* the simulator's aggregate figures
    stored,         \* transaction-service: the transactions persisted so far
    idx,            \* backtesting-service runBacktest: position of the simulation loop
    dividends,      \* the dividend event list (sorted in place by the analyzers)
    fed,            \* the dividend list as it was handed to the operation
    analysis,       \* the frequency analysis returned
    startDate,      \* report window
    endDate,
    now,            \* the wall clock read by moment(), in half-day ticks
    income,         \* calculateDividendIncome's result
    history,        \* the dividend history built for the response
    request,        \* the body of the POST that started a run
    calls,          \* the collaborator calls the run has issued and their failures, in order
    response        \* what the run answered

vars == <<component, phase, candles, timeframe, resampled, quantity, transactions,
          simResult, stored, idx, dividends, fed, analysis, startDate, endDate,
          now, income, history, request, calls, response>>

(***************************************************************************)
(* Bounds of the model.                                                    *)
(***************************************************************************)
MaxCandles == 3

MaxEvents == 4

\* the scenario of 24 monthly payments over 2 years
NumMonthlyEvents == 24
MaxTransactions == 2
MaxDividends == 2
NumEndToEndEvents == 12

(***************************************************************************)
(* Generic helpers.                                                        *)
(***************************************************************************)
Min2(a, b) == IF a <= b THEN a ELSE b

Max2(a, b) == IF a >= b THEN a ELSE b

RECURSIVE SumSeq(_)
SumSeq(s) == IF s = <<>> THEN 0 ELSE Head(s) + SumSeq(Tail(s))

Range(s) == {s[i] : i \in DOMAIN s}

(***************************************************************************)
(* The calendar, as moment computes it on a date.                          *)
(***************************************************************************)
\* moment(y-m-d): the day number of a civil date
DayOf(y, m, d) ==
    LET yy  == IF m <= 2 THEN y - 1 ELSE y
        era == yy \div 400
        yoe == yy - era * 400
        mp  == IF m > 2 THEN m - 3 ELSE m + 9
        doy == (153 * mp + 2) \div 5 + d - 1
        doe == yoe * 365 + yoe \div 4 - yoe \div 100 + doy
    IN  era * 146097 + doe - 719468

\* the civil date of day doy of the year yoe of an era, the year starting in
\* March, mp being the month counted from March
CivilOfMonth(era, yoe, doy, mp) ==
    <<yoe + era * 400 + (IF mp < 10 THEN 0 ELSE 1),
      IF mp < 10 THEN mp + 3 ELSE mp - 9,
      doy - (153 * mp + 2) \div 5 + 1>>

CivilOfDayOfYear(era, yoe, doy) == CivilOfMonth(era, yoe, doy, (5 * doy + 2) \div 153)

CivilOfYearOfEra(era, doe, yoe) ==
    CivilOfDayOfYear(era, yoe, doe - (365 * yoe + yoe \div 4 - yoe \div 100))

CivilOfDayOfEra(era, doe) ==
    CivilOfYearOfEra(era, doe,
                     (doe - doe \div 1460 + doe \div 36524 - doe \div 146096) \div 365)

\* the civil date <<year, month, day>> of a day number
CivilFromDays(day) ==
    CivilOfDayOfEra((day + 719468) \div 146097, (day + 719468) % 146097)

\* the days the model's dates lie in, with their civil dates (computed once)
CalendarDays == DayOf(2021, 1, 1) .. DayOf(2026, 12, 31)

CalendarTable == [d \in CalendarDays |-> CivilFromDays(d)]

\* format('YYYY-MM-DD'): <<year, month, day>>
FormatYMD(day) == CalendarTable[day]

\* .year()
YearOf(day) == FormatYMD(day)[1]

\* .month(): 0-based
MonthOf(day) == FormatYMD(day)[2] - 1

\* .quarter(): 1-based
QuarterOf(day) == (MonthOf(day) \div 3) + 1

\* .isoWeekday() - 1: 0 = Monday .. 6 = Sunday
IsoWeekdayOf(day) == (day + 3) % 7

DaysInMonth(y, m) ==
    IF m = 12 THEN 31 ELSE DayOf(y, m + 1, 1) - DayOf(y, m, 1)

\* .startOf('isoWeek')
StartOfIsoWeek(day) == day - IsoWeekdayOf(day)

\* .startOf('month')
StartOfMonth(day) == day - (FormatYMD(day)[3] - 1)

\* .endOf('month'), as a date
EndOfMonth(day) ==
    LET y == YearOf(day)
        m == MonthOf(day) + 1
    IN  DayOf(y, m, DaysInMonth(y, m))

\* .startOf('year')
StartOfYear(day) == DayOf(YearOf(day), 1, 1)

\* .month(m0): sets the 0-based month, clamping the day to the month's length
SetMonth(day, m0) ==
    LET ymd == FormatYMD(day)
    IN  DayOf(ymd[1], m0 + 1, Min2(ymd[3], DaysInMonth(ymd[1], m0 + 1)))

\* the order of two 'YYYY-MM-DD' strings (Array.prototype.sort's default order)
KeyLess(a, b) ==
    \/ a[1] < b[1]
    \/ a[1] = b[1] /\ a[2] < b[2]
    \/ a[1] = b[1] /\ a[2] = b[2] /\ a[3] < b[3]

Timeframes == {"1D", "1W", "1M", "3M", "6M", "1Y"}

(***************************************************************************)
(* The resampler.                                                          *)
(***************************************************************************)
\* _.sortBy(list, 'date'): a stable ascending sort
RECURSIVE InsertByDate(_, _)
InsertByDate(sorted, c) ==
    IF sorted = <<>> THEN <<c>>
    ELSE IF sorted[Len(sorted)].date <= c.date THEN Append(sorted, c)
    ELSE Append(InsertByDate(SubSeq(sorted, 1, Len(sorted) - 1), c), sorted[Len(sorted)])

RECURSIVE SortByDate(_)
SortByDate(s) ==
    IF s = <<>> THEN <<>>
    ELSE InsertByDate(SortByDate(SubSeq(s, 1, Len(s) - 1)), s[Len(s)])

\* groups[key].push(candle), creating the group on its first member; the object
\* keeps its keys in insertion order
RECURSIVE PushToGroup(_, _, _)
PushToGroup(groups, key, c) ==
    IF groups = <<>> THEN << [key |-> key, members |-> <<c>>] >>
    ELSE IF Head(groups).key = key
         THEN <<[key |-> key, members |-> Append(Head(groups).members, c)]>> \o Tail(groups)
         ELSE <<Head(groups)>> \o PushToGroup(Tail(groups), key, c)

\* Object.keys(groups).sort()
RECURSIVE InsertByKey(_, _)
InsertByKey(sorted, g) ==
    IF sorted = <<>> THEN <<g>>
    ELSE IF ~KeyLess(g.key, sorted[Len(sorted)].key) THEN Append(sorted, g)
    ELSE Append(InsertByKey(SubSeq(sorted, 1, Len(sorted) - 1), g), sorted[Len(sorted)])

RECURSIVE SortGroupsByKey(_)
SortGroupsByKey(gs) ==
    IF gs = <<>> THEN <<>>
    ELSE InsertByKey(SortGroupsByKey(SubSeq(gs, 1, Len(gs) - 1)), gs[Len(gs)])

\* _.maxBy(group, 'high').high
RECURSIVE MaxHigh(_)
MaxHigh(g) == IF Len(g) = 1 THEN g[1].high ELSE Max2(g[1].high, MaxHigh(Tail(g)))

\* _.minBy(group, 'low').low
RECURSIVE MinLow(_)
MinLow(g) == IF Len(g) = 1 THEN g[1].low ELSE Min2(g[1].low, MinLow(Tail(g)))

\* a volume that keeps only the period's last member
SumVolume_LastOnly(g) == IF g = <<>> THEN 0 ELSE g[Len(g)].volume

\* _.sumBy(group, 'volume')
RECURSIVE SumVolume(_)
SumVolume(g) == IF g = <<>> THEN 0 ELSE Head(g).volume + SumVolume(Tail(g))

\* a bucket key that puts months on week boundaries
periodKey_ByWeek(day, tf) ==
    IF tf = "1D" THEN FormatYMD(day) ELSE FormatYMD(StartOfIsoWeek(day))

\* market-data-service resampleCandles: the bucket key of a candle
periodKey(day, tf) ==
    IF tf = "1W" THEN FormatYMD(StartOfIsoWeek(day))
    ELSE IF tf = "1M" THEN FormatYMD(StartOfMonth(day))
    ELSE IF tf = "3M" THEN FormatYMD(StartOfMonth(SetMonth(day, (MonthOf(day) \div 3) * 3)))
    ELSE IF tf = "6M" THEN FormatYMD(StartOfMonth(SetMonth(day, (MonthOf(day) \div 6) * 6)))
    ELSE IF tf = "1Y" THEN FormatYMD(StartOfYear(day))
    ELSE FormatYMD(day)

RECURSIVE groupCandles(_, _, _)
groupCandles(sorted, tf, groups) ==
    IF sorted = <<>> THEN groups
    ELSE groupCandles(Tail(sorted), tf,
                      PushToGroup(groups, periodKey(Head(sorted).date, tf), Head(sorted)))

\* a bucket candle that takes its open from the period's last member
resampledCandle_LastOpen(group) ==
    LET sortedGroup == SortByDate(group)
    IN  [date   |-> sortedGroup[Len(sortedGroup)].date,
         open   |-> sortedGroup[Len(sortedGroup)].open,
         high   |-> MaxHigh(sortedGroup),
         low    |-> MinLow(sortedGroup),
         close  |-> sortedGroup[Len(sortedGroup)].close,
         volume |-> SumVolume(sortedGroup)]

\* the OHLCV of one bucket (market-data-service: the group is sorted again first)
resampledCandle(group) ==
    LET sortedGroup == SortByDate(group)
    IN  [date   |-> sortedGroup[Len(sortedGroup)].date,
         open   |-> sortedGroup[1].open,
         high   |-> MaxHigh(sortedGroup),
         low    |-> MinLow(sortedGroup),
         close  |-> sortedGroup[Len(sortedGroup)].close,
         volume |-> SumVolume(sortedGroup)]

\* market-data-service resampleCandles(dailyCandles, timeframe)
resampleCandles(dailyCandles, tf) ==
    IF dailyCandles = <<>> THEN <<>>
    ELSE LET groups == SortGroupsByKey(groupCandles(SortByDate(dailyCandles), tf, <<>>))
         IN  [i \in 1..Len(groups) |-> resampledCandle(groups[i].members)]

\* backtesting-service resampleCandles: the key is set for '1W' and '1M' only and
\* stays undefined for every other timeframe
KeyUndefined == <<>>

utilsPeriodKey(day, tf) ==
    IF tf = "1W" THEN FormatYMD(StartOfIsoWeek(day))
    ELSE IF tf = "1M" THEN FormatYMD(StartOfMonth(day))
    ELSE KeyUndefined

RECURSIVE utilsGroupCandles(_, _, _)
utilsGroupCandles(sorted, tf, groups) ==
    IF sorted = <<>> THEN groups
    ELSE utilsGroupCandles(Tail(sorted), tf,
                           PushToGroup(groups, utilsPeriodKey(Head(sorted).date, tf), Head(sorted)))

utilsResampledCandle(group) ==
    [date   |-> group[Len(group)].date,
     open   |-> group[1].open,
     high   |-> MaxHigh(group),
     low    |-> MinLow(group),
     close  |-> group[Len(group)].close,
     volume |-> SumVolume(group)]

\* backtesting-service resampleCandles(dailyCandles, timeframe)
utilsResampleCandles(dailyCandles, tf) ==
    LET groups == utilsGroupCandles(SortByDate(dailyCandles), tf, <<>>)
    IN  [i \in 1..Len(groups) |-> utilsResampledCandle(groups[i].members)]

(***************************************************************************)
(* The dividend frequency analyzer (dividend-service, and the api-gateway  *)
(* variant).  An analysis is the object returned: `fields` are the keys it *)
(* holds, `matched` the payments of the matched window.                    *)
(***************************************************************************)
Analysis(freq, conf, reason, flds, points, days, matched) ==
    [frequency |-> freq, confidence |-> conf, reason |-> reason, fields |-> flds,
     dataPoints |-> points, daysAnalyzed |-> days, matched |-> matched]

NoMatch == Analysis("none", "none", "none", {"isMatch"}, 0, 0, <<>>)

MatchFields == {"isMatch", "frequency", "confidence", "reason", "dataPoints",
                "daysAnalyzed", "payments"}

\* dividends.sort((a, b) => new Date(b.exDate) - new Date(a.exDate)): newest first
RECURSIVE InsertByExDateDesc(_, _)
InsertByExDateDesc(sorted, d) ==
    IF sorted = <<>> THEN <<d>>
    ELSE IF sorted[Len(sorted)].exDate >= d.exDate THEN Append(sorted, d)
    ELSE Append(InsertByExDateDesc(SubSeq(sorted, 1, Len(sorted) - 1), d), sorted[Len(sorted)])

RECURSIVE sortNewestFirst(_)
sortNewestFirst(s) ==
    IF s = <<>> THEN <<>>
    ELSE InsertByExDateDesc(sortNewestFirst(SubSeq(s, 1, Len(s) - 1)), s[Len(s)])

\* moment(a.exDate).diff(moment(b.exDate), 'days') for consecutive payments
intervalsOf(divs) ==
    [i \in 1..(Len(divs) - 1) |-> divs[i].exDate - divs[i + 1].exDate]

\* expectedIntervals[frequencyType] of smartFrequencyService.js
expectedIntervals(frequencyType) ==
    IF frequencyType = "monthly" THEN [min |-> 25, max |-> 40]
    ELSE IF frequencyType = "quarterly" THEN [min |-> 75, max |-> 105]
    ELSE IF frequencyType = "semi-annual" THEN [min |-> 165, max |-> 205]
    ELSE IF frequencyType = "annual" THEN [min |-> 340, max |-> 385]
    ELSE [min |-> 0, max |-> -1]

FrequencyTypes == {"monthly", "quarterly", "semi-annual", "annual"}

\* a confidence whose length guard asks for three payments (two gaps)
calculateConfidence_TwoGaps(divs, frequencyType) ==
    IF Len(divs) < 3 THEN "low"
    ELSE LET intervals == intervalsOf(divs)
             expected  == expectedIntervals(frequencyType)
             valid     == Cardinality({i \in DOMAIN intervals :
                              intervals[i] >= expected.min /\ intervals[i] <= expected.max})
         IN  IF 5 * valid >= 4 * Len(intervals) THEN "high"
             ELSE IF 5 * valid >= 3 * Len(intervals) THEN "medium"
             ELSE "low"

\* a confidence without the medium grade
calculateConfidence_NoMedium(divs, frequencyType) ==
    IF Len(divs) < 2 THEN "low"
    ELSE LET intervals == intervalsOf(divs)
             expected  == expectedIntervals(frequencyType)
             valid     == Cardinality({i \in DOMAIN intervals :
                              intervals[i] >= expected.min /\ intervals[i] <= expected.max})
         IN  IF 5 * valid >= 4 * Len(intervals) THEN "high" ELSE "low"

\* SmartDividendFrequencyService.calculateConfidence (smartFrequencyService.js);
\* consistencyRatio >= 0.8 is 5 * valid >= 4 * n, >= 0.6 is 5 * valid >= 3 * n
calculateConfidence(divs, frequencyType) ==
    IF Len(divs) < 2 THEN "low"
    ELSE IF frequencyType \notin FrequencyTypes THEN "medium"
    ELSE LET intervals == intervalsOf(divs)
             expected  == expectedIntervals(frequencyType)
             valid     == Cardinality({i \in DOMAIN intervals :
                              intervals[i] >= expected.min /\ intervals[i] <= expected.max})
         IN  IF 5 * valid >= 4 * Len(intervals) THEN "high"
             ELSE IF 5 * valid >= 3 * Len(intervals) THEN "medium"
             ELSE "low"

\* a window that leaves out the most recent payment itself
dividendsInPeriod_BeforeLast(divs, lastExDate, daysBack) ==
    SelectSeq(divs, LAMBDA d : d.exDate >= lastExDate - daysBack /\ d.exDate < lastExDate)

\* the payments on or after lastExDate - daysBack:
\* isAfter(cutoffDate) || isSame(cutoffDate, 'day')
dividendsInPeriod(divs, lastExDate, daysBack) ==
    SelectSeq(divs, LAMBDA d : d.exDate >= lastExDate - daysBack)

\* SmartDividendFrequencyService.checkFrequency
checkFrequency(divs, lastExDate, daysBack, minCount, frequencyType) ==
    LET inPeriod == dividendsInPeriod(divs, lastExDate, daysBack)
    IN  IF Len(inPeriod) >= minCount
        THEN Analysis(frequencyType, calculateConfidence(inPeriod, frequencyType),
                      "Found payments", MatchFields, Len(inPeriod), daysBack, inPeriod)
        ELSE NoMatch

\* SmartDividendFrequencyService.checkIrregularPattern: stdDev / avgInterval > 0.5,
\* that is 4 * n * sum(x^2) > 5 * sum(x)^2
checkIrregularPattern(divs) ==
    IF Len(divs) < 3 THEN FALSE
    ELSE LET intervals == intervalsOf(divs)
             n  == Len(intervals)
             s1 == SumSeq(intervals)
             s2 == SumSeq([i \in DOMAIN intervals |-> intervals[i] * intervals[i]])
         IN  s1 > 0 /\ 4 * n * s2 > 5 * s1 * s1

\* the enhanced fallback: the mean of the last up-to-4 intervals
estimateFromIntervals(divs) ==
    LET k   == Min2(Len(divs) - 1, 4)
        sum == SumSeq([i \in 1..k |-> divs[i].exDate - divs[i + 1].exDate])
    IN  IF sum < 45 * k THEN "monthly"
        ELSE IF sum < 135 * k THEN "quarterly"
        ELSE IF sum < 225 * k THEN "semi-annual"
        ELSE "annual"

\* a cascade that tries the quarterly rule before the monthly rule
cascade_QuarterlyFirst(sorted, lastExDate) ==
    LET quarterlyCheck  == checkFrequency(sorted, lastExDate, 100, 2, "quarterly")
        monthlyCheck    == checkFrequency(sorted, lastExDate, 35, 2, "monthly")
        semiAnnualCheck == checkFrequency(sorted, lastExDate, 200, 2, "semi-annual")
        annualCheck     == checkFrequency(sorted, lastExDate, 365, 1, "annual")
    IN  IF "frequency" \in quarterlyCheck.fields THEN quarterlyCheck
        ELSE IF "frequency" \in monthlyCheck.fields THEN monthlyCheck
        ELSE IF "frequency" \in semiAnnualCheck.fields THEN semiAnnualCheck
        ELSE IF "frequency" \in annualCheck.fields THEN annualCheck
        ELSE NoMatch

\* the rule cascade of analyzeFrequency: the first check that matches
cascade(sorted, lastExDate) ==
    LET monthlyCheck    == checkFrequency(sorted, lastExDate, 35, 2, "monthly")
        quarterlyCheck  == checkFrequency(sorted, lastExDate, 100, 2, "quarterly")
        semiAnnualCheck == checkFrequency(sorted, lastExDate, 200, 2, "semi-annual")
        annualCheck     == checkFrequency(sorted, lastExDate, 365, 1, "annual")
    IN  IF "frequency" \in monthlyCheck.fields THEN monthlyCheck
        ELSE IF "frequency" \in quarterlyCheck.fields THEN quarterlyCheck
        ELSE IF "frequency" \in semiAnnualCheck.fields THEN semiAnnualCheck
        ELSE IF "frequency" \in annualCheck.fields THEN annualCheck
        ELSE NoMatch

\* SmartDividendFrequencyService.analyzeFrequency, on the list already sorted
analyzeSorted(sorted) ==
    LET matched == cascade(sorted, sorted[1].exDate)
    IN  IF "frequency" \in matched.fields THEN matched
        ELSE IF checkIrregularPattern(sorted)
        THEN Analysis("irregular", "medium", "Irregular payment pattern detected",
                      {"frequency", "confidence", "reason", "details", "dataPoints"},
                      Len(sorted), 0, <<>>)
        ELSE IF Len(sorted) >= 2
        THEN Analysis(estimateFromIntervals(sorted), "low", "Estimated from intervals",
                      {"frequency", "confidence", "reason", "dataPoints", "avgInterval",
                       "intervals"},
                      Len(sorted), 0, <<>>)
        ELSE Analysis("quarterly", "low", "Insufficient data for pattern analysis",
                      {"frequency", "confidence", "reason", "dataPoints"}, Len(sorted), 0, <<>>)

\* SmartDividendFrequencyService.analyzeFrequency(dividends): the value returned
analyzeFrequency(divs) ==
    IF divs = <<>>
    THEN Analysis("quarterly", "low", "No dividend data",
                  {"frequency", "confidence", "reason"}, 0, 0, <<>>)
    ELSE analyzeSorted(sortNewestFirst(divs))

\* the markets a ticker's suffix names: '.IN', '.TO', anything else
Markets == {"IN", "TO", "US"}

\* SmartDividendFrequencyService.getDividendFrequency(ticker, ...), given the
\* dividends fetched: no dividend is answered before analyzeFrequency is
\* called, with the market's default frequency
getDividendFrequency(divs, market) ==
    IF divs = <<>>
    THEN Analysis(IF market = "IN" THEN "annual" ELSE "quarterly", "low",
                  "No dividend data available",
                  {"frequency", "confidence", "reason", "dataPoints", "exchange"}, 0, 0, <<>>)
    ELSE [analyzeFrequency(divs) EXCEPT !.fields = @ \cup {"exchange"}]

\* api-gateway checkFrequency: a match is always reported with confidence 'high'
gwCheckFrequency(divs, lastExDate, daysBack, minCount, frequencyType) ==
    LET inPeriod == dividendsInPeriod(divs, lastExDate, daysBack)
    IN  IF Len(inPeriod) >= minCount
        THEN Analysis(frequencyType, "high", "Found payments", MatchFields,
                      Len(inPeriod), daysBack, inPeriod)
        ELSE NoMatch

\* api-gateway analyzeDividendFrequency(dividends): the value returned
gwAnalyzeDividendFrequency(divs) ==
    IF Len(divs) < 2
    THEN Analysis("irregular", "low", "Insufficient data to determine frequency",
                  {"frequency", "confidence", "reason"}, 0, 0, <<>>)
    ELSE LET sorted          == sortNewestFirst(divs)
             lastExDate      == sorted[1].exDate
             monthlyCheck    == gwCheckFrequency(sorted, lastExDate, 35, 2, "monthly")
             quarterlyCheck  == gwCheckFrequency(sorted, lastExDate, 100, 2, "quarterly")
             semiAnnualCheck == gwCheckFrequency(sorted, lastExDate, 200, 2, "semi-annual")
             annualCheck     == gwCheckFrequency(sorted, lastExDate, 365, 1, "annual")
         IN  IF "frequency" \in monthlyCheck.fields THEN monthlyCheck
             ELSE IF "frequency" \in quarterlyCheck.fields THEN quarterlyCheck
             ELSE IF "frequency" \in semiAnnualCheck.fields THEN semiAnnualCheck
             ELSE IF "frequency" \in annualCheck.fields THEN annualCheck
             ELSE Analysis("quarterly", "low", "Could not determine clear pattern",
                           {"frequency", "confidence", "reason", "dataPoints"},
                           Len(sorted), 0, <<>>)

(***************************************************************************)
(* The strategy simulator: api-gateway backtestRedCandleStrategy and the   *)
(* simulation loop of backtesting-service runBacktest.                     *)
(***************************************************************************)
\* a quotient kept exact: num / den
Fraction(n, d) == [num |-> n, den |-> d]

\* the number x
Num(x) == Fraction(x, 1)

\* NaN and the infinities are the quotients with denominator 0
NaN == Fraction(0, 0)

Infinity(sign) == Fraction(sign, 0)

IsNaN(f) == f.den = 0 /\ f.num = 0

IsFinite(f) == f.den # 0

Sign(x) == IF x > 0 THEN 1 ELSE IF x < 0 THEN 0 - 1 ELSE 0

Abs(x) == IF x < 0 THEN 0 - x ELSE x

RECURSIVE GCD(_, _)
GCD(a, b) == IF b = 0 THEN a ELSE GCD(b, a % b)

\* the quotient n / d (d # 0) in lowest terms, its denominator positive
Normal(n, d) ==
    LET g == GCD(Abs(n), Abs(d))
    IN  IF d < 0 THEN Fraction((0 - n) \div g, (0 - d) \div g)
        ELSE Fraction(n \div g, d \div g)

\* f / g as JavaScript divides: x / 0 is an infinity, 0 / 0 is NaN
jsDivide(f, g) ==
    IF IsNaN(f) \/ IsNaN(g) THEN NaN
    ELSE IF ~IsFinite(f) THEN (IF ~IsFinite(g) THEN NaN
                               ELSE Infinity(f.num * (IF g.num < 0 THEN 0 - 1 ELSE 1)))
    ELSE IF ~IsFinite(g) THEN Num(0)
    ELSE IF g.num = 0 THEN (IF f.num = 0 THEN NaN ELSE Infinity(Sign(f.num)))
    ELSE LET a == Normal(f.num, g.num)
             b == Normal(g.den, f.den)
         IN  Normal(a.num * b.num, a.den * b.den)

\* f * k for an integer k
jsTimes(f, k) ==
    IF IsNaN(f) THEN NaN
    ELSE IF ~IsFinite(f) THEN (IF k = 0 THEN NaN ELSE Infinity(Sign(f.num * k)))
    ELSE LET g == GCD(Abs(k), f.den)
         IN  Normal(f.num * (k \div g), f.den \div g)

\* f || 0: NaN and 0 are falsy
OrZero(f) == IF IsNaN(f) \/ (IsFinite(f) /\ f.num = 0) THEN Num(0) ELSE f

\* f > 0
IsPositive(f) == f.num > 0

\* f is the number 0
IsZero(f) == IsFinite(f) /\ f.num = 0

\* n / d rounded to the nearest integer, halves away from zero (d > 0)
RoundHalfAway(n, d) ==
    IF n >= 0 THEN (2 * n + d) \div (2 * d) ELSE 0 - ((d - 2 * n) \div (2 * d))

\* parseFloat(f.toFixed(digits)), scale = 10 ^ digits; NaN and the infinities
\* stay what they are
ToFixed(f, scale) ==
    IF IsFinite(f)
    THEN LET whole == Abs(f.num) \div f.den
             rest  == Abs(f.num) % f.den
             units == whole * scale + RoundHalfAway(rest * scale, f.den)
         IN  Fraction(Sign(f.num) * units, scale)
    ELSE f

\* x / y || 0
DivOrZero(x, y) == OrZero(jsDivide(Num(x), Num(y)))

\* parseInt of a request value: a number (given in tenths) is cut to its
\* integer part, anything else is NaN
parseInt(raw) ==
    IF raw.kind = "number"
    THEN Num(IF raw.tenths >= 0 THEN raw.tenths \div 10 ELSE 0 - ((0 - raw.tenths) \div 10))
    ELSE NaN

\* parseInt(quantity) || default
quantityOrDefault(raw, default) ==
    LET parsed == parseInt(raw)
    IN  IF IsNaN(parsed) \/ parsed.num = 0 THEN default ELSE parsed.num

\* the trade date of a candle: the Friday of the ISO week for '1W'
\* (endOf('isoWeek').subtract(2, 'days')), the month's last day for '1M'
tradeDateOf(candleDate, tf) ==
    IF tf = "1W" THEN StartOfIsoWeek(candleDate) + 6 - 2
    ELSE IF tf = "1M" THEN EndOfMonth(candleDate)
    ELSE candleDate

\* a transaction priced at the candle's open
buyTransaction_AtOpen(candle, index, quantityPerTrade, tf) ==
    [date        |-> tradeDateOf(candle.date, tf),
     candleDate  |-> candle.date,
     action      |-> "BUY",
     quantity    |-> quantityPerTrade,
     price       |-> candle.open,
     cost        |-> quantityPerTrade * candle.open,
     candleIndex |-> index]

\* the transaction pushed for a red candle
buyTransaction(candle, index, quantityPerTrade, tf) ==
    [date        |-> tradeDateOf(candle.date, tf),
     candleDate  |-> candle.date,
     action      |-> "BUY",
     quantity    |-> quantityPerTrade,
     price       |-> candle.close,
     cost        |-> quantityPerTrade * candle.close,
     candleIndex |-> index]

\* a red-candle test that also takes a flat candle for a signal
isRedCandle_OrFlat(candle) == candle.open >= candle.close

\* const isRedCandle = candle.open > candle.close
isRedCandle(candle) == candle.open > candle.close

\* candles.forEach((candle, index) => ...): the transactions pushed from index i on
RECURSIVE redCandleBuys(_, _, _, _)
redCandleBuys(cs, i, quantityPerTrade, tf) ==
    IF i > Len(cs) THEN <<>>
    ELSE IF isRedCandle(cs[i])
         THEN <<buyTransaction(cs[i], i, quantityPerTrade, tf)>>
                  \o redCandleBuys(cs, i + 1, quantityPerTrade, tf)
         ELSE redCandleBuys(cs, i + 1, quantityPerTrade, tf)

\* api-gateway backtestRedCandleStrategy(candles, quantityPerTrade, timeframe)
backtestRedCandleStrategy(cs, quantityPerTrade, tf) ==
    LET txs             == redCandleBuys(cs, 1, quantityPerTrade, tf)
        totalShares     == SumSeq([j \in DOMAIN txs |-> quantityPerTrade])
        totalInvestment == SumSeq([j \in DOMAIN txs |-> txs[j].cost])
    IN  [transactions     |-> txs,
         totalShares      |-> totalShares,
         totalInvestment  |-> totalInvestment,
         redCandlePeriods |-> Len(txs),
         averageCost      |-> DivOrZero(totalInvestment, totalShares),
         lastPrice        |-> IF cs = <<>> THEN 0 ELSE cs[Len(cs)].close]

\* backtesting-service runBacktest: the tx built for a red candle
ctlTransaction(candle, qty) ==
    [transactionDate |-> candle.date,
     type            |-> "BUY",
     quantity        |-> qty,
     price           |-> candle.close,
     totalCost       |-> qty * candle.close]

\* backtesting-service runBacktest: the figures computed after the loop
ctlTotals(txs, cs, qty) ==
    LET totalShares     == Len(txs) * qty
        totalInvestment == SumSeq([j \in DOMAIN txs |-> txs[j].totalCost])
    IN  [transactions     |-> txs,
         totalShares      |-> totalShares,
         totalInvestment  |-> totalInvestment,
         redCandlePeriods |-> Len(txs),
         averageCost      |-> DivOrZero(totalInvestment, totalShares),
         lastPrice        |-> IF cs = <<>> THEN 0 ELSE cs[Len(cs)].close]

(***************************************************************************)
(* The income attributor of the api-gateway.  Dates are day numbers; the   *)
(* clock counts half days, so that the instant of a date d (its midnight,  *)
(* as moment(d) reads 'YYYY-MM-DD') is the tick 2 * d.  Money is in whole  *)
(* cents.                                                                  *)
(***************************************************************************)
\* moment(date): the instant of a date, in ticks
InstantOf(day) == 2 * day

\* the date of an instant
DateOfInstant(tick) == tick \div 2

\* parseFloat(x.toFixed(2)) of an amount in whole cents
RoundCents(x) == x

\* transactions.sort((a, b) => new Date(a.date) - new Date(b.date)): stable
RECURSIVE InsertTxByDate(_, _)
InsertTxByDate(sorted, t) ==
    IF sorted = <<>> THEN <<t>>
    ELSE IF sorted[Len(sorted)].date <= t.date THEN Append(sorted, t)
    ELSE Append(InsertTxByDate(SubSeq(sorted, 1, Len(sorted) - 1), t), sorted[Len(sorted)])

RECURSIVE sortTransactions(_)
sortTransactions(txs) ==
    IF txs = <<>> THEN <<>>
    ELSE InsertTxByDate(sortTransactions(SubSeq(txs, 1, Len(txs) - 1)), txs[Len(txs)])

\* schedule.sort((a, b) => new Date(a.exDate) - new Date(b.exDate)): stable
RECURSIVE InsertByExDateAsc(_, _)
InsertByExDateAsc(sorted, d) ==
    IF sorted = <<>> THEN <<d>>
    ELSE IF sorted[Len(sorted)].exDate <= d.exDate THEN Append(sorted, d)
    ELSE Append(InsertByExDateAsc(SubSeq(sorted, 1, Len(sorted) - 1), d), sorted[Len(sorted)])

RECURSIVE sortOldestFirst(_)
sortOldestFirst(s) ==
    IF s = <<>> THEN <<>>
    ELSE InsertByExDateAsc(sortOldestFirst(SubSeq(s, 1, Len(s) - 1)), s[Len(s)])

\* dividends.filter(...).forEach(schedule.push(...)), from index i on
RECURSIVE scheduleFrom(_, _, _, _, _)
scheduleFrom(divs, i, start, end, frequency) ==
    IF i > Len(divs) THEN <<>>
    ELSE IF divs[i].exDate >= start /\ divs[i].exDate <= end
         THEN <<[exDate         |-> divs[i].exDate,
                 amountPerShare |-> divs[i].amount,
                 year           |-> YearOf(divs[i].exDate),
                 period         |-> IF frequency = "monthly"
                                    THEN MonthOf(divs[i].exDate) + 1
                                    ELSE QuarterOf(divs[i].exDate)]>>
                  \o scheduleFrom(divs, i + 1, start, end, frequency)
         ELSE scheduleFrom(divs, i + 1, start, end, frequency)

\* a schedule that keeps every dividend, in the window or not
generateDividendSchedule_NoWindow(start, end, frequency, divs) ==
    IF divs = <<>> THEN <<>>
    ELSE sortOldestFirst(scheduleFrom(divs, 1, divs[1].exDate - 1000, divs[1].exDate + 1000,
                                      frequency))

\* api-gateway generateDividendSchedule(startDate, endDate, frequency, dividends)
generateDividendSchedule(start, end, frequency, divs) ==
    IF divs = <<>> THEN <<>>
    ELSE sortOldestFirst(scheduleFrom(divs, 1, start, end, frequency))

\* api-gateway calculateSharesOwnedOnDate(transactions, targetDate)
calculateSharesOwnedOnDate(txs, targetDate) ==
    SumSeq([j \in DOMAIN txs |->
              IF txs[j].date <= targetDate
              THEN IF txs[j].action = "BUY" THEN txs[j].quantity
                   ELSE IF txs[j].action = "SELL" THEN 0 - txs[j].quantity
                   ELSE 0
              ELSE 0])

\* sharesOwnedOnExDate > 0 ? (moment().isAfter(moment(exDate)) ? 'paid' : 'upcoming')
\*                         : 'not_eligible'
dividendStatus(sharesOwnedOnExDate, exDate, clock) ==
    IF sharesOwnedOnExDate > 0
    THEN IF clock > InstantOf(exDate) THEN "paid" ELSE "upcoming"
    ELSE "not_eligible"

\* the record pushed to dividendDetails for one entry of the schedule
dividendDetail(sortedTransactions, dividend, clock) ==
    LET sharesOwnedOnExDate == calculateSharesOwnedOnDate(sortedTransactions, dividend.exDate)
        dividendIncome      == sharesOwnedOnExDate * dividend.amountPerShare
    IN  [exDate         |-> dividend.exDate,
         amountPerShare |-> dividend.amountPerShare,
         sharesOwned    |-> sharesOwnedOnExDate,
         totalIncome    |-> dividendIncome,
         year           |-> dividend.year,
         period         |-> dividend.period,
         status         |-> dividendStatus(sharesOwnedOnExDate, dividend.exDate, clock)]

\* api-gateway calculateDividendIncome(transactions, dividends, startDate, endDate)
calculateDividendIncome(txs, divs, start, end, clock) ==
    IF divs = <<>>
    THEN [totalDividendIncome |-> 0, dividendDetails |-> <<>>,
          totalDividendPeriods |-> 0, periodsWithIncome |-> 0]
    ELSE LET sortedTransactions == sortTransactions(txs)
             dividendSchedule   == generateDividendSchedule(start, end, "quarterly", divs)
             dividendDetails    == [k \in DOMAIN dividendSchedule |->
                                      dividendDetail(sortedTransactions, dividendSchedule[k], clock)]
         IN  [totalDividendIncome  |-> SumSeq([k \in DOMAIN dividendDetails |->
                                                  dividendDetails[k].totalIncome]),
              dividendDetails      |-> dividendDetails,
              totalDividendPeriods |-> Len(dividendSchedule),
              periodsWithIncome    |-> Cardinality({k \in DOMAIN dividendDetails :
                                                       dividendDetails[k].totalIncome > 0})]

MonthLabels ==
    <<"Jan", "Feb", "Mar", "Apr", "May", "Jun", "Jul", "Aug", "Sep", "Oct", "Nov", "Dec">>

QuarterLabels == <<"Q1", "Q2", "Q3", "Q4">>

\* generateDividendHistory: the payment of one period from the period's details
periodPayment(period, periodDividends, label) ==
    [period |-> period,
     amount |-> RoundCents(SumSeq([k \in DOMAIN periodDividends |->
                                     periodDividends[k].totalIncome])),
     status |-> IF Len(periodDividends) > 0 THEN periodDividends[1].status ELSE "pending",
     label  |-> label]

\* generateDividendHistory: the payments of one year
yearPayments(frequency, yearDividends) ==
    IF frequency = "monthly"
    THEN [p \in 1..12 |->
            LET InMonth(d) == MonthOf(d.exDate) = p - 1
            IN  periodPayment(p, SelectSeq(yearDividends, InMonth), MonthLabels[p])]
    ELSE IF frequency = "quarterly"
    THEN [q \in 1..4 |->
            LET InQuarter(d) == QuarterOf(d.exDate) = q
            IN  periodPayment(q, SelectSeq(yearDividends, InQuarter), QuarterLabels[q])]
    ELSE <<>>

\* generateDividendHistory: the entries pushed for the years from year on
RECURSIVE historyFrom(_, _, _, _, _, _)
historyFrom(year, endYear, frequency, details, start, end) ==
    IF year > endYear THEN <<>>
    ELSE LET InYear(d)     == YearOf(d.exDate) = year
             yearDividends == SelectSeq(details, InYear)
             payments      == yearPayments(frequency, yearDividends)
             periodStart   == Max2(start, DayOf(year, 1, 1))
             periodEnd     == Min2(end, DayOf(year, 12, 31))
             rest          == historyFrom(year + 1, endYear, frequency, details, start, end)
         IN  IF periodStart > periodEnd \/ yearDividends = <<>> THEN rest
             ELSE <<[year              |-> year,
                     frequency         |-> frequency,
                     totalAmount       |-> RoundCents(SumSeq([k \in DOMAIN payments |->
                                                                 payments[k].amount])),
                     payments          |-> payments,
                     periodStart       |-> FormatYMD(periodStart),
                     periodEnd         |-> FormatYMD(periodEnd),
                     periodsInYear     |-> Len(payments),
                     periodsWithIncome |-> Cardinality({k \in DOMAIN payments :
                                                          payments[k].amount > 0})]>> \o rest

\* api-gateway generateDividendHistory(frequency, transactions, startDate, endDate, dividends)
generateDividendHistory(frequency, txs, start, end, divs, clock) ==
    IF divs = <<>>
    THEN [dividendHistory     |-> <<>>,
          totalDividendIncome |-> 0,
          dividendCalculation |-> calculateDividendIncome(txs, divs, start, end, clock)]
    ELSE LET dividendCalculation == calculateDividendIncome(txs, divs, start, end, clock)
         IN  [dividendHistory     |-> historyFrom(YearOf(start), YearOf(end), frequency,
                                                  dividendCalculation.dividendDetails,
                                                  start, end),
              totalDividendIncome |-> dividendCalculation.totalDividendIncome,
              dividendCalculation |-> dividendCalculation]

(***************************************************************************)
(* The dividend accounting of backtesting-service runBacktest.             *)
(***************************************************************************)
\* _.sortBy(transactions, 'transactionDate'): stable
RECURSIVE InsertByTransactionDate(_, _)
InsertByTransactionDate(sorted, t) ==
    IF sorted = <<>> THEN <<t>>
    ELSE IF sorted[Len(sorted)].transactionDate <= t.transactionDate THEN Append(sorted, t)
    ELSE Append(InsertByTransactionDate(SubSeq(sorted, 1, Len(sorted) - 1), t),
                sorted[Len(sorted)])

RECURSIVE ctlSortTransactions(_)
ctlSortTransactions(txs) ==
    IF txs = <<>> THEN <<>>
    ELSE InsertByTransactionDate(ctlSortTransactions(SubSeq(txs, 1, Len(txs) - 1)),
                                 txs[Len(txs)])

\* while (txIndex < sortedTx.length && sortedTx[txIndex].transactionDate < div.exDate)
\* with txIndex counted from 1
RECURSIVE ctlAdvance(_, _, _, _)
ctlAdvance(sortedTx, txIndex, cumShares, exDate) ==
    IF txIndex <= Len(sortedTx) /\ sortedTx[txIndex].transactionDate < exDate
    THEN ctlAdvance(sortedTx, txIndex + 1, cumShares + sortedTx[txIndex].quantity, exDate)
    ELSE [txIndex |-> txIndex, cumShares |-> cumShares]

\* for (const div of dividends): what each iteration from i on computes
RECURSIVE ctlAccrue(_, _, _, _, _)
ctlAccrue(sortedTx, divs, i, txIndex, cumShares) ==
    IF i > Len(divs) THEN <<>>
    ELSE LET at == ctlAdvance(sortedTx, txIndex, cumShares, divs[i].exDate)
         IN  <<[exDate         |-> divs[i].exDate,
                amount         |-> divs[i].amount,
                cumShares      |-> at.cumShares,
                dividendIncome |-> at.cumShares * divs[i].amount]>>
                 \o ctlAccrue(sortedTx, divs, i + 1, at.txIndex, at.cumShares)

\* runBacktest: totalDividend and yearlyDividends, with what the loop computed
\* for each dividend
ctlDividendIncome(txs, divs, start, end) ==
    LET sortedTx == ctlSortTransactions(txs)
        accrued  == ctlAccrue(sortedTx, divs, 1, 1, 0)
        yearlyDividendMap(year) ==
            SumSeq([k \in DOMAIN accrued |->
                      IF YearOf(accrued[k].exDate) = year THEN accrued[k].dividendIncome ELSE 0])
    IN  [totalDividend   |-> SumSeq([k \in DOMAIN accrued |-> accrued[k].dividendIncome]),
         perDividend     |-> accrued,
         yearlyDividends |-> [k \in 1..(YearOf(end) - YearOf(start) + 1) |->
                                [year          |-> YearOf(start) + k - 1,
                                 totalDividend |-> yearlyDividendMap(YearOf(start) + k - 1)]]]

\* _.meanBy(dividends, 'amount'), or 0 without dividends
lastKnownAmount(divs) ==
    IF Len(divs) > 0
    THEN Fraction(SumSeq([k \in DOMAIN divs |-> divs[k].amount]), Len(divs))
    ELSE Fraction(0, 1)

\* runBacktest dividendHistory: the payment of month m of year y
ctlPayment(divs, y, m, currentDate) ==
    LET InMonth(d) == YearOf(d.exDate) = y /\ MonthOf(d.exDate) + 1 = m
        monthDivs  == SelectSeq(divs, InMonth)
        amount     == SumSeq([k \in DOMAIN monthDivs |-> monthDivs[k].amount])
        thisYear   == YearOf(currentDate)
        thisMonth  == MonthOf(currentDate) + 1
    IN  IF y > thisYear \/ (y = thisYear /\ m > thisMonth)
        THEN [period |-> m, amount |-> Fraction(0, 1), status |-> "pending",
              label |-> MonthLabels[m]]
        ELSE IF y = thisYear /\ m = thisMonth
        THEN [period |-> m, amount |-> lastKnownAmount(divs), status |-> "upcoming",
              label |-> MonthLabels[m]]
        ELSE IF amount = 0 /\ y <= thisYear
        THEN [period |-> m, amount |-> lastKnownAmount(divs), status |-> "paid",
              label |-> MonthLabels[m]]
        ELSE [period |-> m, amount |-> Fraction(amount, 1), status |-> "paid",
              label |-> MonthLabels[m]]

\* the sum of the payments' amounts, over the mean's denominator
ctlTotalAmount(payments, divs) ==
    LET n == Max2(Len(divs), 1)
    IN  Fraction(SumSeq([k \in DOMAIN payments |->
                           payments[k].amount.num * (n \div payments[k].amount.den)]), n)

\* runBacktest dividendHistory: one entry for each year from start to end
ctlDividendHistory(divs, start, end, clock) ==
    [k \in 1..(YearOf(end) - YearOf(start) + 1) |->
        LET y        == YearOf(start) + k - 1
            payments == [m \in 1..12 |-> ctlPayment(divs, y, m, DateOfInstant(clock))]
        IN  [year        |-> y,
             frequency   |-> "monthly",
             totalAmount |-> ctlTotalAmount(payments, divs),
             payments    |-> payments]]

(***************************************************************************)
(* The api-gateway's price fetch.                                          *)
(***************************************************************************)
\* current.add(1, 'month'): the same day of the next month, clamped
AddMonth(day) ==
    LET ymd == FormatYMD(day)
        y   == IF ymd[2] = 12 THEN ymd[1] + 1 ELSE ymd[1]
        m   == IF ymd[2] = 12 THEN 1 ELSE ymd[2] + 1
    IN  DayOf(y, m, Min2(ymd[3], DaysInMonth(y, m)))

\* the price moves Math.random() may draw, in cents: a path is the sign of
\* each candle's change
MockPaths == {"down", "up", "alternating"}

mockChange(path, n) ==
    IF path = "down" THEN 0 - 10
    ELSE IF path = "up" THEN 10
    ELSE IF n % 2 = 0 THEN 0 - 10 ELSE 10

\* generateMockPriceDataByTimeframe: daily data skips Saturdays and Sundays
skipWeekend(current, tf) ==
    IF tf = "1D" /\ IsoWeekdayOf(current) = 5 THEN current + 2
    ELSE IF tf = "1D" /\ IsoWeekdayOf(current) = 6 THEN current + 1
    ELSE current

\* generateMockPriceDataByTimeframe: current.add(increment.amount, increment.unit)
mockIncrement(current, tf) ==
    IF tf = "1W" THEN current + 7
    ELSE IF tf = "1M" THEN AddMonth(current)
    ELSE current + 1

\* generateMockPriceDataByTimeframe: the candle pushed on day current, the n-th
\* one, opening at currentPrice
mockCandle(current, currentPrice, path, n) ==
    [date |-> current, open |-> currentPrice, high |-> currentPrice + 15,
     low |-> currentPrice - 15, close |-> currentPrice + mockChange(path, n), volume |-> 50000]

\* generateMockPriceDataByTimeframe: the candles pushed from day current on (a
\* day that is not skipped), the n-th candle opening at currentPrice
RECURSIVE mockCandlesFrom(_, _, _, _, _, _)
mockCandlesFrom(current, end, tf, currentPrice, path, n) ==
    IF current > end THEN <<>>
    ELSE <<mockCandle(current, currentPrice, path, n)>>
             \o mockCandlesFrom(skipWeekend(mockIncrement(current, tf), tf), end, tf,
                                currentPrice + mockChange(path, n), path, n + 1)

\* api-gateway generateMockPriceDataByTimeframe(startDate, endDate, timeframe, ticker)
\* for a ticker of the default price, 22.58
generateMockPriceDataByTimeframe(start, end, tf, path) ==
    mockCandlesFrom(skipWeekend(start, tf), end, tf, 2258, path, 0)

\* api-gateway getStockPriceData, given what the provider answered: "throws",
\* "error" (status 'error') or "ok" with its values
getStockPriceData(answer, start, end, tf, path) ==
    IF answer.outcome = "throws" THEN generateMockPriceDataByTimeframe(start, end, tf, path)
    ELSE IF answer.outcome = "error" THEN <<>>
    ELSE LET HasPrices(c) == c.open # 0 /\ c.close # 0
             InPeriod(c)  == c.date >= start /\ c.date <= end
         IN  SelectSeq(SortByDate(SelectSeq(answer.values, HasPrices)), InPeriod)

\* backtesting-service getDailyCandles, given what the store or the market-data
\* service answered: the candles of the window, oldest first
getDailyCandles(answer, start, end) ==
    LET InPeriod(c) == c.date >= start /\ c.date <= end
    IN  SelectSeq(SortByDate(answer.values), InPeriod)

\* backtesting-service getDividends, given what the store or the dividend
\* service answered: the dividends of the window, oldest first
getDividends(fetch, start, end) ==
    LET InPeriod(d) == d.exDate # 0 /\ d.exDate >= start /\ d.exDate <= end
    IN  sortOldestFirst(SelectSeq(fetch.events, InPeriod))

(***************************************************************************)
(* The api-gateway's backtest route: the dividend check, the metrics and   *)
(* the response.                                                           *)
(***************************************************************************)
\* moment().subtract(12, 'months'): the same day and time a year earlier
SubtractYear(tick) ==
    LET ymd == FormatYMD(DateOfInstant(tick))
        day == Min2(ymd[3], DaysInMonth(ymd[1] - 1, ymd[2]))
    IN  InstantOf(DayOf(ymd[1] - 1, ymd[2], day)) + (tick % 2)

\* checkDividendData: no frequency analysis was made
NoFrequencyAnalysis == Analysis("none", "none", "none", {}, 0, 0, <<>>)

\* checkDividendData: the events with an ex_date and a positive amount
validDividendsOf(events) ==
    LET IsValid(d) == d.exDate # 0 /\ d.amount > 0
    IN  SelectSeq(events, IsValid)

\* api-gateway checkDividendData, given what the provider answered: "throws"
\* (the request failed), "error" (status 'error') or "ok" with its events
checkDividendData(fetch) ==
    IF fetch.outcome = "throws"
    THEN [hasDividends |-> FALSE, dividends |-> <<>>, frequency |-> "none",
          reason |-> "Failed to fetch dividend data", analysis |-> NoFrequencyAnalysis]
    ELSE IF fetch.outcome = "error"
    THEN [hasDividends |-> FALSE, dividends |-> <<>>, frequency |-> "none",
          reason |-> "API error or asset does not pay dividends", analysis |-> NoFrequencyAnalysis]
    ELSE LET validDividends == validDividendsOf(fetch.events)
         IN  IF Len(validDividends) > 0
             THEN LET frequencyAnalysis == gwAnalyzeDividendFrequency(validDividends)
                  IN  [hasDividends |-> TRUE,
                       dividends    |-> IF Len(validDividends) < 2 THEN validDividends
                                        ELSE sortNewestFirst(validDividends),
                       frequency    |-> frequencyAnalysis.frequency,
                       reason       |-> "Found dividend payments",
                       analysis     |-> frequencyAnalysis]
             ELSE [hasDividends |-> FALSE, dividends |-> <<>>, frequency |-> "none",
                   reason |-> "No dividend payments found", analysis |-> NoFrequencyAnalysis]

\* api-gateway getPaymentsPerYear(frequency)
getPaymentsPerYear(frequency) ==
    IF frequency = "monthly" THEN 12
    ELSE IF frequency = "quarterly" THEN 4
    ELSE IF frequency = "semi-annual" THEN 2
    ELSE IF frequency = "annual" THEN 1
    ELSE 4

\* a pick of the event with the greatest exDate
mostRecentDividend_Newest(divs) ==
    CHOOSE d \in Range(divs) : \A e \in Range(divs) : e.exDate <= d.exDate

\* calculateStockMetrics: const mostRecentDividend = dividends[dividends.length - 1]
mostRecentDividend(divs) == divs[Len(divs)]

\* api-gateway calculateStockMetrics(backtestResults, dividendCheck, currentPrice,
\*                                   totalShares, totalInvestment)
calculateStockMetrics(backtestResults, dividendCheck, currentPrice, totalShares, totalInvestment, clock) ==
    LET averageCost == backtestResults.averageCost
        basicMetrics ==
            [currentPrice    |-> RoundCents(currentPrice),
             averageBuyPrice |-> ToFixed(averageCost, 1),  \* to the whole cent
             totalShares     |-> totalShares,
             totalInvestment |-> RoundCents(totalInvestment),
             currentValue    |-> RoundCents(totalShares * currentPrice)]
    IN  IF dividendCheck.hasDividends /\ Len(dividendCheck.dividends) > 0
        THEN LET divs                   == dividendCheck.dividends
                 dividendPerShare       == mostRecentDividend(divs).amount
                 paymentsPerYear        == getPaymentsPerYear(dividendCheck.frequency)
                 annualDividendPerShare == dividendPerShare * paymentsPerYear
                 lastDividendYield      ==
                     IF currentPrice > 0
                     THEN jsTimes(jsDivide(Num(annualDividendPerShare), Num(currentPrice)), 100)
                     ELSE Num(0)
                 oneYearAgo             == SubtractYear(clock)
                 ttmTotal               ==
                     SumSeq([k \in DOMAIN divs |->
                               IF InstantOf(divs[k].exDate) > oneYearAgo THEN divs[k].amount
                               ELSE 0])
                 ttmDividendYield       ==
                     IF currentPrice > 0
                     THEN jsTimes(jsDivide(Num(ttmTotal), Num(currentPrice)), 100)
                     ELSE Num(0)
                 yieldOnCost            ==
                     IF IsPositive(averageCost)
                     THEN jsTimes(jsDivide(Num(annualDividendPerShare), averageCost), 100)
                     ELSE Num(0)
             IN  [basic                  |-> basicMetrics,
                  dividendPerShare       |-> RoundCents(dividendPerShare),
                  lastDividendYield      |-> ToFixed(lastDividendYield, 100),
                  ttmDividendYield       |-> ToFixed(ttmDividendYield, 100),
                  yieldOnCost            |-> ToFixed(yieldOnCost, 100),
                  annualDividendPerShare |-> RoundCents(annualDividendPerShare)]
        ELSE [basic                  |-> basicMetrics,
              dividendPerShare       |-> 0,
              lastDividendYield      |-> Num(0),
              ttmDividendYield       |-> Num(0),
              yieldOnCost            |-> Num(0),
              annualDividendPerShare |-> 0]

\* (x / y) * 100 when y > 0, else 0
percentOrZero(x, y) == IF y > 0 THEN jsTimes(jsDivide(Num(x), Num(y)), 100) ELSE Num(0)

\* POST /api/v1/backtest: the dividend results when the asset has no dividends
NoDividendResults ==
    [dividendHistory |-> <<>>, totalDividendIncome |-> 0,
     dividendCalculation |-> [empty |-> TRUE]]

\* POST /api/v1/backtest: yearlyDividends, one entry per year of the history
yearlyDividendsOf(dividendHistory) ==
    [k \in DOMAIN dividendHistory |->
        [year          |-> dividendHistory[k].year,
         totalDividend |-> dividendHistory[k].totalAmount]]

\* POST /api/v1/backtest, step 4: the dividend history and income
dividendResultsOf(dividendCheck, backtestResults, start, end, clock) ==
    IF dividendCheck.hasDividends
    THEN generateDividendHistory(dividendCheck.frequency, backtestResults.transactions,
                                 start, end, dividendCheck.dividends, clock)
    ELSE NoDividendResults

\* POST /api/v1/backtest, step 3: the metrics of the simulation
stockMetricsOf(backtestResults, dividendCheck, clock) ==
    calculateStockMetrics(backtestResults, dividendCheck, backtestResults.lastPrice,
                          backtestResults.totalShares, backtestResults.totalInvestment, clock)

\* POST /api/v1/backtest, step 5: the body of res.json
gatewayBody(candles0, backtestResults, dividendCheck, quantityPerTrade, stockMetrics, dividendResults) ==
    LET totalShares          == backtestResults.totalShares
        totalInvestment      == backtestResults.totalInvestment
        currentPrice         == backtestResults.lastPrice
        totalValueToday      == totalShares * currentPrice
        pnL                  == totalValueToday - totalInvestment
        pnLPercent           == percentOrZero(pnL, totalInvestment)
        actualDividendIncome == dividendResults.totalDividendIncome
        pnLWithDividend      == pnL + actualDividendIncome
    IN  [pnL                    |-> RoundCents(pnL),
          pnLPercent             |-> ToFixed(pnLPercent, 100),
          pnLWithDividend        |-> RoundCents(pnLWithDividend),
          pnLWithDividendPercent |-> ToFixed(percentOrZero(pnLWithDividend, totalInvestment), 100),
          currentPrice           |-> stockMetrics.basic.currentPrice,
          totalShares            |-> stockMetrics.basic.totalShares,
          totalInvestment        |-> stockMetrics.basic.totalInvestment,
          totalValueToday        |-> stockMetrics.basic.currentValue,
          averageCost            |-> stockMetrics.basic.averageBuyPrice,
          totalDividend          |-> RoundCents(actualDividendIncome),
          totalDivPercent        |-> ToFixed(percentOrZero(actualDividendIncome, totalInvestment), 100),
          dividendPerShare       |-> stockMetrics.dividendPerShare,
          annualDividendPerShare |-> stockMetrics.annualDividendPerShare,
          lastDividendYield      |-> stockMetrics.lastDividendYield,
          ttmDividendYield       |-> stockMetrics.ttmDividendYield,
          yieldOnCost            |-> stockMetrics.yieldOnCost,
          hasDividends           |-> dividendCheck.hasDividends,
          dividendFrequency      |-> dividendCheck.frequency,
          redCandlePeriods       |-> backtestResults.redCandlePeriods,
          totalCandlePeriods     |-> Len(candles0),
          redCandleSuccessRate   |-> ToFixed(jsTimes(jsDivide(Num(backtestResults.redCandlePeriods),
                                                              Num(Len(candles0))), 100), 100),
          quantity               |-> quantityPerTrade,
          transactions           |-> SubSeq(backtestResults.transactions, 1,
                                            Min2(10, Len(backtestResults.transactions))),
          yearlyDividends        |-> yearlyDividendsOf(dividendResults.dividendHistory),
          dividendHistory        |-> dividendResults.dividendHistory,
          dividendCalculationDetails |-> dividendResults.dividendCalculation]

(***************************************************************************)
(* backtesting-service runBacktest: frequency, yields and the response.    *)
(***************************************************************************)
\* runBacktest: dividendFrequency from the average gap between ex-dates
ctlDividendFrequency(divs) ==
    IF Len(divs) >= 2
    THEN LET sortedDivs == sortOldestFirst(divs)
             totalDays  == SumSeq([i \in 1..(Len(sortedDivs) - 1) |->
                                      sortedDivs[i + 1].exDate - sortedDivs[i].exDate])
             gaps       == Len(sortedDivs) - 1
         IN  IF totalDays < 45 * gaps THEN "monthly"
             ELSE IF totalDays < 135 * gaps THEN "quarterly"
             ELSE IF totalDays < 225 * gaps THEN "semi-annual"
             ELSE "annual"
    ELSE "quarterly"

\* runBacktest: paymentsPerYear of the frequency it inferred
ctlPaymentsPerYear(frequency) ==
    IF frequency = "monthly" THEN 12
    ELSE IF frequency = "quarterly" THEN 4
    ELSE IF frequency = "semi-annual" THEN 2
    ELSE 1

\* (x / y) * 100 || 0
percentOrNaNZero(x, y) == OrZero(jsTimes(jsDivide(Num(x), Num(y)), 100))

\* runBacktest: the body of res.json, lines 79-226
ctlResponse(txs, cs, divs, qty, start, end, clock) ==
    LET totals           == ctlTotals(txs, cs, qty)
        totalShares      == totals.totalShares
        totalInvestment  == totals.totalInvestment
        lastClose        == totals.lastPrice
        totalValueToday  == totalShares * lastClose
        pnL              == totalValueToday - totalInvestment
        dividendIncome   == ctlDividendIncome(txs, divs, start, end)
        totalDividend    == dividendIncome.totalDividend
        pnLWithDividend  == pnL + totalDividend
        dividendFrequency == ctlDividendFrequency(divs)
        annualDiv        == IF Len(divs) > 0
                            THEN divs[Len(divs)].amount * ctlPaymentsPerYear(dividendFrequency)
                            ELSE 0
        oneYearAgo       == SubtractYear(InstantOf(end))
        ttmSum           == SumSeq([k \in DOMAIN divs |->
                                      IF InstantOf(divs[k].exDate) > oneYearAgo
                                      THEN divs[k].amount ELSE 0])
        avgCost          == DivOrZero(totalInvestment, totalShares)
    IN  [pnL                    |-> pnL,
         pnLPercent             |-> percentOrNaNZero(pnL, totalInvestment),
         pnLWithDividend        |-> pnLWithDividend,
         pnLWithDividendPercent |-> percentOrNaNZero(pnLWithDividend, totalInvestment),
         totalDividend          |-> totalDividend,
         totalDivPercent        |-> percentOrNaNZero(totalDividend, totalInvestment),
         lastDividendYield      |-> IF Len(divs) > 0
                                    THEN jsTimes(jsDivide(Num(annualDiv), Num(lastClose)), 100)
                                    ELSE Num(0),
         ttmDividendYield       |-> IF Len(divs) > 0
                                    THEN jsTimes(jsDivide(Num(ttmSum), Num(lastClose)), 100)
                                    ELSE Num(0),
         yieldOnCost            |-> IF Len(divs) > 0
                                    THEN jsTimes(jsDivide(Num(annualDiv), avgCost), 100)
                                    ELSE Num(0),
         dividendFrequency      |-> dividendFrequency,
         totalShares            |-> totalShares,
         totalInvestment        |-> totalInvestment,
         totalValueToday        |-> totalValueToday,
         averageCost            |-> totals.averageCost,
         yearlyDividends        |-> dividendIncome.yearlyDividends,
         dividendHistory        |-> ctlDividendHistory(divs, start, end, clock)]

(***************************************************************************)
(* Inputs of the model: candles.                                           *)
(***************************************************************************)
\* candle dates around the period boundaries: Mon 2024-01-29 and Thu 2024-02-01
\* (one ISO week, two months, one quarter), Mon 2024-02-05 (the same month, the
\* next week), Mon 2024-04-01 (second quarter), Mon 2024-12-30 (second half) and
\* Wed 2025-01-01 (the same ISO week, next year)
CandleDays ==
    {DayOf(2024, 1, 29), DayOf(2024, 2, 1), DayOf(2024, 2, 5), DayOf(2024, 4, 1),
     DayOf(2024, 12, 30), DayOf(2025, 1, 1)}

\* a red candle, a green candle and a flat candle without volume
CandleShapes ==
    {[open |-> 3, high |-> 4, low |-> 2, close |-> 2, volume |-> 1],
     [open |-> 2, high |-> 5, low |-> 1, close |-> 3, volume |-> 2],
     [open |-> 2, high |-> 2, low |-> 2, close |-> 2, volume |-> 0]}

MkCandle(d, s) ==
    [date |-> d, open |-> s.open, high |-> s.high, low |-> s.low,
     close |-> s.close, volume |-> s.volume]

NoAnalysis == Analysis("none", "none", "none", {}, 0, 0, <<>>)

NoSimResult ==
    [transactions |-> <<>>, totalShares |-> 0, totalInvestment |-> 0,
     redCandlePeriods |-> 0, averageCost |-> Fraction(0, 1), lastPrice |-> 0]

NoIncome == [totalDividendIncome |-> 0, dividendDetails |-> <<>>,
             totalDividendPeriods |-> 0, periodsWithIncome |-> 0]

resVars == <<candles, timeframe, resampled>>

simVars == <<quantity, transactions, simResult, stored, idx>>

divVars == <<dividends, fed, analysis>>

incVars == <<startDate, endDate, now, income, history>>

IdleRes == candles = <<>> /\ timeframe = "1D" /\ resampled = <<>>

IdleSim ==
    /\ quantity = 0
    /\ transactions = <<>>
    /\ simResult = NoSimResult
    /\ stored = <<>>
    /\ idx = 0

IdleDiv == dividends = <<>> /\ fed = <<>> /\ analysis = NoAnalysis

IdleInc ==
    /\ startDate = 0
    /\ endDate = 0
    /\ now = 0
    /\ income = NoIncome
    /\ history = <<>>

\* no request yet
NoRequest ==
    [ticker |-> FALSE, startDate |-> 0, endDate |-> 0, timeframe |-> "",
     quantity |-> [kind |-> "omitted", tenths |-> 0]]

\* nothing answered yet
NoResponse == [status |-> 0, error |-> "", body |-> [empty |-> TRUE]]

runVars == <<request, calls, response>>

IdleRun == request = NoRequest /\ calls = <<>> /\ response = NoResponse

(***************************************************************************)
(* The resampler's operations.                                             *)
(***************************************************************************)
\* the provider hands over one more daily candle (dates are unique, any order)
AddCandle ==
    /\ phase = "input"
    /\ Len(candles) < MaxCandles
    /\ \E d \in CandleDays, s \in CandleShapes :
          /\ \A i \in DOMAIN candles : candles[i].date # d
          /\ candles' = Append(candles, MkCandle(d, s))
    /\ UNCHANGED <<component, phase, timeframe, resampled>>
    /\ UNCHANGED <<simVars, divVars, incVars>>
    /\ UNCHANGED runVars

\* market-data-service: resampleCandles(dailyCandles, timeframe)
Resample ==
    /\ component = "resampler"
    /\ phase = "input"
    /\ \E tf \in Timeframes :
          /\ timeframe' = tf
          /\ resampled' = resampleCandles(candles, tf)
    /\ phase' = "resampled"
    /\ UNCHANGED <<component, candles>>
    /\ UNCHANGED <<simVars, divVars, incVars>>
    /\ UNCHANGED runVars

\* backtesting-service: runBacktest line 57 calls resampleCandles(dailyCandles,
\* timeframe) for every timeframe but '1D'
UtilsResample ==
    /\ component = "resampler"
    /\ phase = "input"
    /\ \E tf \in Timeframes \ {"1D"} :
          /\ timeframe' = tf
          /\ resampled' = utilsResampleCandles(candles, tf)
    /\ phase' = "utilsResampled"
    /\ UNCHANGED <<component, candles>>
    /\ UNCHANGED <<simVars, divVars, incVars>>
    /\ UNCHANGED runVars

InitResample ==
    /\ component = "resampler"
    /\ phase = "input"
    /\ IdleRes
    /\ IdleSim
    /\ IdleDiv
    /\ IdleInc
    /\ IdleRun

NextResample == AddCandle \/ Resample \/ UtilsResample

SpecResample == InitResample /\ [][NextResample]_vars

(***************************************************************************)
(* Claims about the resampler.                                             *)
(***************************************************************************)
\* the bucket key the variant that ran gave a date
KeyUsed(day) ==
    IF phase = "resampled" THEN periodKey(day, timeframe) ELSE utilsPeriodKey(day, timeframe)

\* the input candles that share a bucket with the date
BucketOf(day) == {c \in Range(candles) : KeyUsed(c.date) = KeyUsed(day)}

Earliest(S) == CHOOSE c \in S : \A o \in S : c.date <= o.date

Latest(S) == CHOOSE c \in S : \A o \in S : c.date >= o.date

RECURSIVE TotalVolumeOf(_)
TotalVolumeOf(S) ==
    IF S = {} THEN 0
    ELSE LET c == CHOOSE x \in S : TRUE IN c.volume + TotalVolumeOf(S \ {c})

ResampleDone == phase \in {"resampled", "utilsResampled"}

\* C3: every non-empty bucket yields one output candle whose open is the open of
\* the earliest-dated member, close the close of the latest-dated member, high
\* the greatest member high, low the least member low, volume the sum of the
\* member volumes and date the latest member's date.
C3_BucketOHLCV ==
    ResampleDone =>
        /\ \A c \in Range(candles) :
              Cardinality({i \in DOMAIN resampled : KeyUsed(resampled[i].date) = KeyUsed(c.date)}) = 1
        /\ \A i \in DOMAIN resampled :
              LET r == resampled[i]
                  B == BucketOf(r.date)
              IN  /\ B # {}
                  /\ r.open = Earliest(B).open
                  /\ r.close = Latest(B).close
                  /\ r.date = Latest(B).date
                  /\ \A c \in B : c.high <= r.high /\ r.low <= c.low
                  /\ \E c \in B : c.high = r.high
                  /\ \E c \in B : c.low = r.low
                  /\ r.volume = TotalVolumeOf(B)

\* C3 witness: a bucket of two members, fed latest first, has been aggregated
C3_Witness ==
    /\ ResampleDone
    /\ Len(candles) >= 2
    /\ candles[1].date > candles[2].date
    /\ candles[1].open # candles[2].open
    /\ Cardinality(BucketOf(candles[1].date)) >= 2
    /\ Len(resampled) >= 1

\* C4: the output candles' volumes add up to the input candles' volumes, for
\* every period rule.
C4_VolumeConserved ==
    ResampleDone =>
        SumSeq([i \in DOMAIN resampled |-> resampled[i].volume])
            = SumSeq([i \in DOMAIN candles |-> candles[i].volume])

\* C4 witness: candles with volume were merged into fewer output candles
C4_Witness ==
    /\ ResampleDone
    /\ timeframe \in {"1W", "1M", "3M", "6M", "1Y"}
    /\ Len(resampled) < Len(candles)
    /\ \E i \in DOMAIN resampled : resampled[i].volume >= 3

(***************************************************************************)
(* Inputs of the model: dividend events.                                   *)
(***************************************************************************)
FreqBase == DayOf(2023, 1, 2)

\* ex-dates that give gaps inside and outside every expected window
FreqDays == {FreqBase + o : o \in {0, 30, 60, 70, 100, 150, 330, 700}}

MonthlyGaps == 28..31

\* NumMonthlyEvents payments g days apart, but for one gap of g2 days after the
\* k-th payment
MonthlyDates(g, g2, k) ==
    [i \in 1..NumMonthlyEvents |->
        FreqBase + (i - 1) * g + (IF i > k THEN g2 - g ELSE 0)]

Reverse(s) == [i \in 1..Len(s) |-> s[Len(s) + 1 - i]]

MonthlySeries ==
    LET asc == {[i \in 1..NumMonthlyEvents |->
                    [exDate |-> MonthlyDates(g, g2, k)[i], amount |-> 1]] :
                 g \in MonthlyGaps, g2 \in MonthlyGaps, k \in 1..(NumMonthlyEvents - 1)}
    IN  asc \cup {Reverse(x) : x \in asc}

(***************************************************************************)
(* The frequency analyzer's operations.                                    *)
(***************************************************************************)
\* the provider returns one more valid dividend (ex-dates are unique, any order)
FeedDividend ==
    /\ phase = "input"
    /\ Len(dividends) < MaxEvents
    /\ \E d \in FreqDays :
          /\ \A i \in DOMAIN dividends : dividends[i].exDate # d
          /\ dividends' = Append(dividends, [exDate |-> d, amount |-> Len(dividends) + 1])
    /\ UNCHANGED <<component, phase, fed, analysis>>
    /\ UNCHANGED <<resVars, simVars, incVars>>
    /\ UNCHANGED runVars

\* dividend-service: SmartDividendFrequencyService.analyzeFrequency(dividends);
\* the sort is in place
AnalyzeFrequency ==
    /\ phase = "input"
    /\ fed' = dividends
    /\ dividends' = sortNewestFirst(dividends)
    /\ analysis' = analyzeFrequency(dividends)
    /\ phase' = "analyzed"
    /\ UNCHANGED component
    /\ UNCHANGED <<resVars, simVars, incVars>>
    /\ UNCHANGED runVars

\* dividend-service: SmartDividendFrequencyService.getDividendFrequency, the
\* provider having returned the list
GetDividendFrequency ==
    /\ phase = "input"
    /\ fed' = dividends
    /\ dividends' = sortNewestFirst(dividends)
    /\ \E market \in Markets : analysis' = getDividendFrequency(dividends, market)
    /\ phase' = "frequencyGot"
    /\ UNCHANGED component
    /\ UNCHANGED <<resVars, simVars, incVars>>
    /\ UNCHANGED runVars

\* api-gateway: checkDividendData calls analyzeDividendFrequency(validDividends)
\* when there is at least one valid dividend; the sort is in place and is not
\* reached for fewer than 2
GatewayAnalyzeFrequency ==
    /\ phase = "input"
    /\ Len(dividends) > 0
    /\ fed' = dividends
    /\ dividends' = IF Len(dividends) < 2 THEN dividends ELSE sortNewestFirst(dividends)
    /\ analysis' = gwAnalyzeDividendFrequency(dividends)
    /\ phase' = "gwAnalyzed"
    /\ UNCHANGED component
    /\ UNCHANGED <<resVars, simVars, incVars>>
    /\ UNCHANGED runVars

\* SmartDividendFrequencyService.calculateConfidence(dividends, frequencyType) on a
\* newest-first list
CalculateConfidence ==
    /\ phase = "input"
    /\ Len(dividends) <= MaxEvents
    /\ fed' = dividends
    /\ \E ft \in FrequencyTypes :
          LET sorted == sortNewestFirst(dividends)
          IN  analysis' = Analysis(ft, calculateConfidence(sorted, ft), "none",
                                   {"confidence"}, Len(sorted), 0, sorted)
    /\ phase' = "confidence"
    /\ UNCHANGED <<component, dividends>>
    /\ UNCHANGED <<resVars, simVars, incVars>>
    /\ UNCHANGED runVars

InitFreq ==
    /\ component = "frequency"
    /\ phase = "input"
    /\ IdleRes
    /\ IdleSim
    /\ dividends \in {<<>>} \cup MonthlySeries
    /\ fed = <<>>
    /\ analysis = NoAnalysis
    /\ IdleInc
    /\ IdleRun

NextFreq ==
    \/ FeedDividend
    \/ AnalyzeFrequency
    \/ GetDividendFrequency
    \/ GatewayAnalyzeFrequency
    \/ CalculateConfidence

SpecFreq == InitFreq /\ [][NextFreq]_vars

(***************************************************************************)
(* Claims about the frequency analyzer.                                    *)
(***************************************************************************)
FedDates == {fed[i].exDate : i \in DOMAIN fed}

LastFed == CHOOSE d \in FedDates : \A e \in FedDates : e <= d

\* the events fed whose exDate is within daysBack days of the most recent one
CountWithin(daysBack) ==
    Cardinality({i \in DOMAIN fed : LastFed - fed[i].exDate <= daysBack})

\* the first candidate of the claim's list whose count reaches its minimum
FirstCandidate ==
    IF CountWithin(35) >= 2 THEN <<"monthly", 35>>
    ELSE IF CountWithin(100) >= 2 THEN <<"quarterly", 100>>
    ELSE IF CountWithin(200) >= 2 THEN <<"semi-annual", 200>>
    ELSE IF CountWithin(365) >= 1 THEN <<"annual", 365>>
    ELSE <<"none", 0>>

PrevFed(d) == {x \in FedDates : x < d /\ \A y \in FedDates : ~(x < y /\ y < d)}

FedGaps == UNION {{d - e : e \in PrevFed(d)} : d \in FedDates}

FedGapList == intervalsOf(sortNewestFirst(fed))

\* stddev / mean of the gaps is above 0.5
HighVariation ==
    LET n  == Len(FedGapList)
        s1 == SumSeq(FedGapList)
        s2 == SumSeq([i \in DOMAIN FedGapList |-> FedGapList[i] * FedGapList[i]])
    IN  n > 0 /\ s1 > 0 /\ 4 * n * s2 > 5 * s1 * s1

\* C6 (as claimed): at least 3 events with consecutive gaps between 10 and 400
\* days and a coefficient of variation above 0.5 are classified 'irregular'.
C6_IrregularDetected ==
    (/\ phase = "analyzed"
     /\ Len(fed) >= 3
     /\ \A g \in FedGaps : g >= 10 /\ g <= 400
     /\ HighVariation)
        => analysis.frequency = "irregular"

\* the gaps of the matched payments and those inside the claimed window
MatchedGaps == intervalsOf(analysis.matched)

ClaimedWindow(freq) ==
    IF freq = "monthly" THEN 25..40
    ELSE IF freq = "quarterly" THEN 75..105
    ELSE IF freq = "semi-annual" THEN 165..205
    ELSE 340..385

GapsInWindow ==
    Cardinality({i \in DOMAIN MatchedGaps : MatchedGaps[i] \in ClaimedWindow(analysis.frequency)})

ConfidenceGraded ==
    \/ phase = "confidence"
    \/ phase = "analyzed" /\ "daysAnalyzed" \in analysis.fields

GradeByRatio ==
    IF 5 * GapsInWindow >= 4 * Len(MatchedGaps) THEN "high"
    ELSE IF 5 * GapsInWindow >= 3 * Len(MatchedGaps) THEN "medium"
    ELSE "low"

IsMonthlyScenario ==
    /\ Len(fed) = NumMonthlyEvents
    /\ Cardinality(FedDates) = NumMonthlyEvents
    /\ FedGaps \subseteq 28..31

\* C8: 24 events spaced about 30 days apart yield frequency 'monthly' with
\* confidence 'high'.
C8_MonthlyHigh ==
    (phase = "analyzed" /\ IsMonthlyScenario) =>
        analysis.frequency = "monthly" /\ analysis.confidence = "high"

\* C8 witness: such a series, fed oldest first with one uneven gap, was analyzed
C8_Witness ==
    /\ phase = "analyzed"
    /\ IsMonthlyScenario
    /\ fed[1].exDate < fed[2].exDate
    /\ Cardinality(FedGaps) = 2
    /\ analysis.frequency = "monthly"

(***************************************************************************)
(* The simulator's operations.                                             *)
(***************************************************************************)
SimQuantities == {1, 3}

\* the price provider's next candle, in chronological order
AppendCandle ==
    /\ phase = "input"
    /\ Len(candles) < MaxCandles
    /\ \E d \in CandleDays, s \in CandleShapes :
          /\ \A i \in DOMAIN candles : candles[i].date < d
          /\ candles' = Append(candles, MkCandle(d, s))
    /\ UNCHANGED <<component, phase, timeframe, resampled>>
    /\ UNCHANGED <<simVars, divVars, incVars>>
    /\ UNCHANGED runVars

\* api-gateway POST /api/v1/backtest, step 2:
\* backtestRedCandleStrategy(candles, quantityPerTrade, timeframe)
GatewayBacktest ==
    /\ phase = "input"
    /\ candles # <<>>
    /\ \E tf \in Timeframes :
          LET r == backtestRedCandleStrategy(candles, quantity, tf)
          IN  /\ timeframe' = tf
              /\ transactions' = r.transactions
              /\ simResult' = r
    /\ phase' = "simulated"
    /\ UNCHANGED <<component, candles, resampled, quantity, stored, idx>>
    /\ UNCHANGED <<divVars, incVars>>
    /\ UNCHANGED runVars

\* backtesting-service runBacktest: no daily candle, 404
ControllerNoData ==
    /\ phase = "input"
    /\ candles = <<>>
    /\ phase' = "noData"
    /\ UNCHANGED <<component, resVars, simVars, divVars, incVars>>
    /\ UNCHANGED runVars

\* backtesting-service runBacktest up to the simulation loop: the candles are
\* the daily candles for '1D' and resampled for every other timeframe
ControllerStart ==
    /\ phase = "input"
    /\ candles # <<>>
    /\ \E tf \in Timeframes :
          /\ timeframe' = tf
          /\ resampled' = IF tf = "1D" THEN candles ELSE utilsResampleCandles(candles, tf)
    /\ transactions' = <<>>
    /\ idx' = 1
    /\ phase' = "loop"
    /\ UNCHANGED <<component, candles, quantity, simResult, stored>>
    /\ UNCHANGED <<divVars, incVars>>
    /\ UNCHANGED runVars

\* one iteration on a red candle: the transaction is POSTed to the
\* transaction-service, which saves it, and pushed
ControllerBuy ==
    /\ phase = "loop"
    /\ idx <= Len(resampled)
    /\ resampled[idx].open > resampled[idx].close
    /\ stored' = Append(stored, ctlTransaction(resampled[idx], quantity))
    /\ transactions' = Append(transactions, ctlTransaction(resampled[idx], quantity))
    /\ idx' = idx + 1
    /\ UNCHANGED <<component, phase, resVars, quantity, simResult>>
    /\ UNCHANGED <<divVars, incVars>>
    /\ UNCHANGED runVars

\* one iteration on a candle that is not red
ControllerSkip ==
    /\ phase = "loop"
    /\ idx <= Len(resampled)
    /\ ~(resampled[idx].open > resampled[idx].close)
    /\ idx' = idx + 1
    /\ UNCHANGED <<component, phase, resVars, quantity, transactions, simResult, stored>>
    /\ UNCHANGED <<divVars, incVars>>
    /\ UNCHANGED runVars

\* the POST of a red candle's transaction throws: runBacktest rejects, nothing
\* is answered; the transaction-service may have saved the transaction before
\* the failure (a lost answer) or not (a refused connection, a failed save)
ControllerPostFails ==
    /\ phase = "loop"
    /\ idx <= Len(resampled)
    /\ resampled[idx].open > resampled[idx].close
    /\ \E saved \in BOOLEAN :
          stored' = IF saved THEN Append(stored, ctlTransaction(resampled[idx], quantity))
                    ELSE stored
    /\ phase' = "failed"
    /\ UNCHANGED <<component, resVars, quantity, transactions, simResult, idx>>
    /\ UNCHANGED <<divVars, incVars>>
    /\ UNCHANGED runVars

\* the loop has ended: the figures of lines 79-84
ControllerTotals ==
    /\ phase = "loop"
    /\ idx > Len(resampled)
    /\ simResult' = ctlTotals(transactions, resampled, quantity)
    /\ phase' = "ctlSimulated"
    /\ UNCHANGED <<component, resVars, quantity, transactions, stored, idx>>
    /\ UNCHANGED <<divVars, incVars>>
    /\ UNCHANGED runVars

\* the end-to-end scenario: daily candles (open 10, close 9), (9, 11), (12, 11)
EndToEndCandles ==
    <<[date |-> DayOf(2024, 1, 2), open |-> 10, high |-> 10, low |-> 9, close |-> 9, volume |-> 1],
      [date |-> DayOf(2024, 1, 3), open |-> 9, high |-> 11, low |-> 9, close |-> 11, volume |-> 1],
      [date |-> DayOf(2024, 1, 4), open |-> 12, high |-> 12, low |-> 11, close |-> 11, volume |-> 1]>>

InitSim ==
    /\ component = "simulator"
    /\ phase = "input"
    /\ timeframe = "1D"
    /\ resampled = <<>>
    /\ \/ candles = <<>> /\ quantity \in SimQuantities
       \/ candles = EndToEndCandles /\ quantity = 5
    /\ transactions = <<>>
    /\ simResult = NoSimResult
    /\ stored = <<>>
    /\ idx = 0
    /\ IdleDiv
    /\ IdleInc
    /\ IdleRun

NextSim ==
    \/ AppendCandle
    \/ GatewayBacktest
    \/ ControllerNoData
    \/ ControllerStart
    \/ ControllerBuy
    \/ ControllerSkip
    \/ ControllerPostFails
    \/ ControllerTotals

SpecSim == InitSim /\ [][NextSim]_vars

(***************************************************************************)
(* Claims about the simulator.                                             *)
(***************************************************************************)
\* the gateway's transactions emitted for the candle at position i
GatewayBuysAt(i) == {j \in DOMAIN transactions : transactions[j].candleIndex = i}

\* the controller's transactions emitted for the candle at position i (candle
\* dates are unique)
ControllerBuysAt(i) ==
    {j \in DOMAIN transactions : transactions[j].transactionDate = resampled[i].date}

\* C1: exactly one BUY at the candle's close for each candle with open > close,
\* none for a candle with open <= close (open = close is not a signal); in the
\* controller's loop this holds of the candles already iterated, and the
\* candles still ahead have no transaction.
C1_OneBuyPerRedCandle ==
    /\ phase = "simulated" =>
          /\ \A j \in DOMAIN transactions : transactions[j].candleIndex \in DOMAIN candles
          /\ \A i \in DOMAIN candles :
                /\ Cardinality(GatewayBuysAt(i)) = (IF candles[i].open > candles[i].close THEN 1 ELSE 0)
                /\ \A j \in GatewayBuysAt(i) :
                      /\ transactions[j].action = "BUY"
                      /\ transactions[j].price = candles[i].close
                      /\ transactions[j].quantity = quantity
                      /\ transactions[j].candleDate = candles[i].date
    /\ phase \in {"loop", "ctlSimulated"} =>
          /\ \A j \in DOMAIN transactions :
                \E i \in DOMAIN resampled : transactions[j].transactionDate = resampled[i].date
          /\ \A i \in DOMAIN resampled :
                /\ Cardinality(ControllerBuysAt(i))
                      = (IF i < idx /\ resampled[i].open > resampled[i].close THEN 1 ELSE 0)
                /\ \A j \in ControllerBuysAt(i) :
                      /\ transactions[j].type = "BUY"
                      /\ transactions[j].price = resampled[i].close
                      /\ transactions[j].quantity = quantity
    /\ phase = "ctlSimulated" => idx = Len(resampled) + 1

\* C1 witness: a run over a red, a flat and a green candle bought once
C1_Witness ==
    /\ phase \in {"simulated", "ctlSimulated"}
    /\ Len(candles) = 3
    /\ timeframe = "1D"
    /\ \E i \in DOMAIN candles : candles[i].open > candles[i].close
    /\ \E i \in DOMAIN candles : candles[i].open = candles[i].close
    /\ \E i \in DOMAIN candles : candles[i].open < candles[i].close
    /\ Len(transactions) = 1

(***************************************************************************)
(* The income attributor's operations.                                     *)
(***************************************************************************)
IncomeDays == {DayOf(2023, 12, 15), DayOf(2024, 1, 15), DayOf(2024, 2, 15), DayOf(2024, 5, 15)}

DividendAmounts == {2, 5}

\* the report windows: startDate, endDate
ReportWindows ==
    {<<DayOf(2023, 12, 1), DayOf(2024, 12, 31)>>, <<DayOf(2024, 1, 15), DayOf(2024, 2, 15)>>}

\* the processing times: the midnight of an ex-date, its noon, a later year
ClockTicks ==
    {InstantOf(DayOf(2024, 2, 15)), InstantOf(DayOf(2024, 2, 15)) + 1, InstantOf(DayOf(2025, 6, 1))}

\* a transaction handed to the attributor: a ledger in any order, one
\* transaction a day, that never sells more than it holds
AddTransaction ==
    /\ component = "attributor"
    /\ phase = "input"
    /\ Len(transactions) < MaxTransactions
    /\ \E d \in IncomeDays, a \in {"BUY", "SELL"} :
          LET t   == [date |-> d, candleDate |-> d, action |-> a, quantity |-> quantity,
                      price |-> 2, cost |-> quantity * 2,
                      candleIndex |-> Len(transactions) + 1]
              txs == Append(transactions, t)
          IN  /\ \A j \in DOMAIN transactions : transactions[j].date # d
              /\ \A j \in DOMAIN txs : calculateSharesOwnedOnDate(txs, txs[j].date) >= 0
              /\ transactions' = txs
    /\ UNCHANGED <<component, phase, resVars, quantity, simResult, stored, idx>>
    /\ UNCHANGED <<divVars, incVars>>
    /\ UNCHANGED runVars

\* a transaction pushed by the controller's simulation loop, in candle order
AddStoredTransaction ==
    /\ component = "controller"
    /\ phase = "input"
    /\ Len(transactions) < MaxTransactions
    /\ \E d \in IncomeDays :
          /\ \A j \in DOMAIN transactions : transactions[j].transactionDate < d
          /\ transactions' = Append(transactions, ctlTransaction([date |-> d, close |-> 2], quantity))
    /\ stored' = transactions'
    /\ UNCHANGED <<component, phase, resVars, quantity, simResult, idx>>
    /\ UNCHANGED <<divVars, incVars>>
    /\ UNCHANGED runVars

\* a dividend event of the fetched list, oldest first; the controller's query
\* keeps the events of the report window
AddDividend ==
    /\ phase = "input"
    /\ Len(dividends) < MaxDividends
    /\ \E d \in IncomeDays, amt \in DividendAmounts :
          /\ \A i \in DOMAIN dividends : dividends[i].exDate < d
          /\ component = "controller" => d >= startDate /\ d <= endDate
          /\ dividends' = Append(dividends, [exDate |-> d, amount |-> amt])
    /\ UNCHANGED <<component, phase, fed, analysis>>
    /\ UNCHANGED <<resVars, simVars, incVars>>
    /\ UNCHANGED runVars

\* api-gateway POST /api/v1/backtest, steps 3 and 5: checkDividendData analyzes
\* the frequency (sorting the list newest first), and generateDividendHistory
\* runs when there are dividends
GatewayDividends ==
    /\ component = "attributor"
    /\ phase = "input"
    /\ \E clock \in ClockTicks :
          /\ now' = clock
          /\ IF dividends = <<>>
             THEN /\ UNCHANGED <<transactions, dividends, analysis>>
                  /\ income' = NoIncome
                  /\ history' = <<>>
             ELSE LET frequencyAnalysis == gwAnalyzeDividendFrequency(dividends)
                      sortedDividends   == IF Len(dividends) < 2 THEN dividends
                                           ELSE sortNewestFirst(dividends)
                      dividendResults   == generateDividendHistory(frequencyAnalysis.frequency,
                                               transactions, startDate, endDate,
                                               sortedDividends, clock)
                  IN  /\ analysis' = frequencyAnalysis
                      /\ dividends' = sortedDividends
                      /\ transactions' = sortTransactions(transactions)
                      /\ income' = dividendResults.dividendCalculation
                      /\ history' = dividendResults.dividendHistory
    /\ phase' = "attributed"
    /\ UNCHANGED <<component, resVars, quantity, simResult, stored, idx>>
    /\ UNCHANGED <<fed, startDate, endDate>>
    /\ UNCHANGED runVars

\* backtesting-service runBacktest after the dividends are fetched: the
\* dividend income and the dividend history
ControllerDividends ==
    /\ component = "controller"
    /\ phase = "input"
    /\ \E clock \in ClockTicks :
          /\ now' = clock
          /\ history' = ctlDividendHistory(dividends, startDate, endDate, clock)
    /\ income' = ctlDividendIncome(transactions, dividends, startDate, endDate)
    /\ simResult' = ctlTotals(transactions, resampled, quantity)
    /\ phase' = "ctlAttributed"
    /\ UNCHANGED <<component, resVars, quantity, transactions, stored, idx>>
    /\ UNCHANGED <<divVars, startDate, endDate>>
    /\ UNCHANGED runVars

\* the end-to-end scenario: a dividend of 25 cents on the 15th of consecutive
\* months from January 2024, and 10 shares bought on 2024-01-02
EndToEndDividends ==
    [k \in 1..NumEndToEndEvents |->
        [exDate |-> DayOf(2024 + ((k - 1) \div 12), ((k - 1) % 12) + 1, 15), amount |-> 25]]

EndToEndPurchase ==
    <<[date |-> DayOf(2024, 1, 2), candleDate |-> DayOf(2024, 1, 2), action |-> "BUY",
       quantity |-> 10, price |-> 2, cost |-> 20, candleIndex |-> 1]>>

EndToEndWindow == <<DayOf(2024, 1, 1), DayOf(2025, 12, 31)>>

InitIncome ==
    /\ phase = "input"
    /\ IdleRes
    /\ simResult = NoSimResult
    /\ stored = <<>>
    /\ idx = 0
    /\ fed = <<>>
    /\ analysis = NoAnalysis
    /\ \/ /\ component \in {"attributor", "controller"}
          /\ quantity \in SimQuantities
          /\ transactions = <<>>
          /\ dividends = <<>>
          /\ \E w \in ReportWindows : startDate = w[1] /\ endDate = w[2]
       \/ /\ component = "attributor"
          /\ quantity = 10
          /\ transactions = EndToEndPurchase
          /\ dividends = EndToEndDividends
          /\ startDate = EndToEndWindow[1]
          /\ endDate = EndToEndWindow[2]
    /\ now = 0
    /\ income = NoIncome
    /\ history = <<>>
    /\ IdleRun

NextIncome ==
    \/ AddTransaction
    \/ AddStoredTransaction
    \/ AddDividend
    \/ GatewayDividends
    \/ ControllerDividends

SpecIncome == InitIncome /\ [][NextIncome]_vars

(***************************************************************************)
(* Claims about the income attributor.                                     *)
(***************************************************************************)
\* BUY quantities minus SELL quantities over the gateway's transactions dated
\* on or before a day
NetSharesOnOrBefore(day) ==
    LET Bought == {j \in DOMAIN transactions :
                      transactions[j].date <= day /\ transactions[j].action = "BUY"}
        Sold   == {j \in DOMAIN transactions :
                      transactions[j].date <= day /\ transactions[j].action = "SELL"}
    IN  Cardinality(Bought) * quantity - Cardinality(Sold) * quantity

\* the same over the controller's transactions, which are all BUY
StoredSharesOnOrBefore(day) ==
    Cardinality({j \in DOMAIN transactions : transactions[j].transactionDate <= day}) * quantity

\* the dividend events inside the report window
EventsInWindow ==
    {i \in DOMAIN dividends : dividends[i].exDate >= startDate /\ dividends[i].exDate <= endDate}

\* the api-gateway attributes one record to each event of the window: the shares
\* held through the ex-date, times the amount
C2_GatewayAttribution ==
    phase = "attributed" =>
        /\ Len(income.dividendDetails) = Cardinality(EventsInWindow)
        /\ \A k \in DOMAIN income.dividendDetails :
              LET e == income.dividendDetails[k]
              IN  /\ \E i \in EventsInWindow :
                        dividends[i].exDate = e.exDate /\ dividends[i].amount = e.amountPerShare
                  /\ e.sharesOwned = NetSharesOnOrBefore(e.exDate)
                  /\ e.totalIncome = e.sharesOwned * e.amountPerShare

\* the controller does the same for each dividend it fetched
C2_ControllerAttribution ==
    phase = "ctlAttributed" =>
        /\ Len(income.perDividend) = Cardinality(EventsInWindow)
        /\ \A k \in DOMAIN income.perDividend :
              LET e == income.perDividend[k]
              IN  /\ e.cumShares = StoredSharesOnOrBefore(e.exDate)
                  /\ e.dividendIncome = e.cumShares * e.amount

\* C2: for each dividend event in the report window, the shares owned on the
\* ex-date are the BUY quantities minus the SELL quantities of the transactions
\* dated on or before the ex-date (the ex-date itself included), and the event's
\* income is those shares times the amount.
C2_SharesOnOrBeforeExDate == C2_GatewayAttribution /\ C2_ControllerAttribution

\* the status the rule gives: not_eligible without shares, paid when the ex-date
\* is not after the clock, upcoming when it is
StatusByRule(e) ==
    IF e.sharesOwned = 0 THEN "not_eligible"
    ELSE IF InstantOf(e.exDate) > now THEN "upcoming"
    ELSE "paid"

\* C9: a record is not_eligible exactly when no share is owned on the ex-date
\* (its income is then 0), otherwise paid when the ex-date is not after the
\* processing time (an ex-date equal to it is paid), upcoming when it is after.
C9_StatusByRule ==
    phase = "attributed" =>
        \A k \in DOMAIN income.dividendDetails :
            LET e == income.dividendDetails[k]
            IN  /\ e.status = StatusByRule(e)
                /\ e.status = "not_eligible" => e.totalIncome = 0

\* the events of the window that fall in a period of a year of the history
EventsInPeriod(entry, period) ==
    {i \in EventsInWindow :
        /\ YearOf(dividends[i].exDate) = entry.year
        /\ IF entry.frequency = "monthly" THEN MonthOf(dividends[i].exDate) + 1 = period
           ELSE QuarterOf(dividends[i].exDate) = period}

\* a payment's amount is zero
AmountIsZero(p) == IF phase = "ctlAttributed" THEN p.amount.num = 0 ELSE p.amount = 0

\* every period of the history without an event is pending with amount 0
PeriodsWithoutEventPending ==
    \A y \in DOMAIN history :
        \A k \in DOMAIN history[y].payments :
            LET p == history[y].payments[k]
            IN  EventsInPeriod(history[y], p.period) = {} =>
                    p.status = "pending" /\ AmountIsZero(p)

\* the api-gateway's history
C10_GatewayHistory == phase = "attributed" => PeriodsWithoutEventPending

\* C10: in the dividend history, every period without a matching dividend
\* event is reported pending with amount 0, never with an averaged or
\* estimated amount.
C10_MissingPeriodsPending ==
    phase \in {"attributed", "ctlAttributed"} => PeriodsWithoutEventPending

\* the gateway reports a year whose periods are partly without an event
C10_GatewayWitness ==
    /\ phase = "attributed"
    /\ \E y \in DOMAIN history :
          /\ \E k \in DOMAIN history[y].payments :
                EventsInPeriod(history[y], history[y].payments[k].period) = {}
          /\ \E k \in DOMAIN history[y].payments :
                history[y].payments[k].amount > 0

\* the income the rule gives for the event at position i of the fetched list
IncomeOfEvent(i) ==
    IF i \in EventsInWindow
    THEN NetSharesOnOrBefore(dividends[i].exDate) * dividends[i].amount
    ELSE 0

\* the amounts of the events inside the report window, summed
AmountsInWindow ==
    SumSeq([i \in DOMAIN dividends |-> IF i \in EventsInWindow THEN dividends[i].amount ELSE 0])

\* every transaction is a BUY dated before every ex-date of the window
AllBoughtBeforeFirstExDate ==
    \A j \in DOMAIN transactions :
        /\ transactions[j].action = "BUY"
        /\ \A i \in EventsInWindow : transactions[j].date < dividends[i].exDate

\* C11: totalDividendIncome is the sum of the incomes of the events inside the
\* report window; when every share was bought before the first ex-date it is
\* the shares bought times the sum of the in-window amounts.
C11_TotalIsSumOfIncomes ==
    phase = "attributed" =>
        /\ income.totalDividendIncome = SumSeq([i \in DOMAIN dividends |-> IncomeOfEvent(i)])
        /\ income.totalDividendIncome
              = SumSeq([k \in DOMAIN income.dividendDetails |->
                          income.dividendDetails[k].totalIncome])
        /\ AllBoughtBeforeFirstExDate =>
              income.totalDividendIncome = Len(transactions) * quantity * AmountsInWindow

\* C11 witness: 12 monthly events of 25 cents and 10 shares bought before the
\* first of them give 3000 cents
C11_Witness ==
    /\ phase = "attributed"
    /\ Cardinality(EventsInWindow) = 12
    /\ \A i \in EventsInWindow : dividends[i].amount = 25
    /\ Len(transactions) = 1
    /\ quantity = 10
    /\ AllBoughtBeforeFirstExDate
    /\ income.totalDividendIncome = 3000

\* the red candles among the candles simulated
RedCandles ==
    IF phase = "simulated" THEN {i \in DOMAIN candles : candles[i].open > candles[i].close}
    ELSE {i \in DOMAIN resampled : resampled[i].open > resampled[i].close}

\* the closes of the red candles times the quantity, summed
CostOfRedCandles ==
    IF phase = "simulated"
    THEN SumSeq([i \in DOMAIN candles |->
                   IF i \in RedCandles THEN quantity * candles[i].close ELSE 0])
    ELSE SumSeq([i \in DOMAIN resampled |->
                   IF i \in RedCandles THEN quantity * resampled[i].close ELSE 0])

\* C13: after a simulation totalShares is the quantity times the number of red
\* candles, totalInvestment the sum of quantity x close over the red candles,
\* and totalInvestment = totalShares x averageCost (averageCost is kept as an
\* exact quotient).
C13_TotalsOfSimulation ==
    phase \in {"simulated", "ctlSimulated"} =>
        /\ simResult.totalShares = quantity * Cardinality(RedCandles)
        /\ simResult.totalInvestment = CostOfRedCandles
        /\ simResult.totalInvestment * simResult.averageCost.den
              = simResult.totalShares * simResult.averageCost.num

\* C13 witness: the scenario's candles with quantity 5 give buys of 45 at d1 and
\* 55 at d3, 10 shares, 100 invested, average cost 10
C13_Witness ==
    /\ phase \in {"simulated", "ctlSimulated"}
    /\ timeframe = "1D"
    /\ candles = EndToEndCandles
    /\ quantity = 5
    /\ Len(transactions) = 2
    /\ simResult.totalShares = 10
    /\ simResult.totalInvestment = 100
    /\ simResult.averageCost.num = 10 * simResult.averageCost.den
    /\ \/ /\ phase = "simulated"
          /\ transactions[1].date = DayOf(2024, 1, 2) /\ transactions[1].cost = 45
          /\ transactions[2].date = DayOf(2024, 1, 4) /\ transactions[2].cost = 55
       \/ /\ phase = "ctlSimulated"
          /\ transactions[1].transactionDate = DayOf(2024, 1, 2)
          /\ transactions[1].totalCost = 45
          /\ transactions[2].transactionDate = DayOf(2024, 1, 4)
          /\ transactions[2].totalCost = 55

(***************************************************************************)
(* A whole backtest run: the api-gateway's POST /api/v1/backtest, and the  *)
(* api-gateway router that forwards to backtesting-service runBacktest.    *)
(***************************************************************************)
RunStart == DayOf(2024, 1, 1)

RunEnd == DayOf(2024, 1, 19)

\* startDate and endDate of a request; 0 is a missing field
RequestDates == {0, RunStart, RunEnd}

\* timeframe of a request; "" is a missing field, '2D' is not supported
RequestTimeframes == Timeframes \cup {"", "2D"}

\* quantity of a request: omitted, text, or a number given in tenths
RequestQuantities ==
    {[kind |-> "omitted", tenths |-> 0], [kind |-> "text", tenths |-> 0],
     [kind |-> "number", tenths |-> 0], [kind |-> "number", tenths |-> 5],
     [kind |-> "number", tenths |-> 0 - 20], [kind |-> "number", tenths |-> 50]}

Requests ==
    [ticker : BOOLEAN, startDate : RequestDates, endDate : RequestDates,
     timeframe : RequestTimeframes, quantity : RequestQuantities]

GreenCandle(d) == [date |-> d, open |-> 9, high |-> 11, low |-> 9, close |-> 11, volume |-> 1]

RedCandle(d) == [date |-> d, open |-> 11, high |-> 11, low |-> 9, close |-> 9, volume |-> 1]

\* what the candle provider or store may answer
CandleAnswers ==
    {[outcome |-> "throws", values |-> <<>>],
     [outcome |-> "error", values |-> <<>>],
     [outcome |-> "ok", values |-> <<>>],
     [outcome |-> "ok", values |-> <<GreenCandle(DayOf(2024, 1, 2))>>],
     [outcome |-> "ok", values |-> <<RedCandle(DayOf(2024, 1, 3))>>],
     [outcome |-> "ok", values |-> EndToEndCandles],
     [outcome |-> "ok", values |-> Reverse(EndToEndCandles)]}

\* what the dividend provider or store may answer
DividendAnswers ==
    {[outcome |-> "throws", events |-> <<>>],
     [outcome |-> "error", events |-> <<>>],
     [outcome |-> "ok", events |-> <<>>],
     [outcome |-> "ok", events |-> <<[exDate |-> DayOf(2024, 1, 3), amount |-> 25]>>],
     [outcome |-> "ok", events |-> <<[exDate |-> DayOf(2024, 1, 2), amount |-> 2],
                                     [exDate |-> DayOf(2024, 1, 16), amount |-> 5]>>],
     [outcome |-> "ok", events |-> <<[exDate |-> DayOf(2024, 1, 16), amount |-> 5],
                                     [exDate |-> DayOf(2024, 1, 2), amount |-> 2]>>],
     [outcome |-> "ok", events |-> <<[exDate |-> DayOf(2024, 1, 15), amount |-> 0]>>]}

Answer(status, error, body) == [status |-> status, error |-> error, body |-> body]

NoBody == [empty |-> TRUE]

\* api-gateway POST /api/v1/backtest up to the price fetch: the required
\* fields, the quantity, the timeframe
GatewayReceive ==
    /\ component = "gateway"
    /\ phase = "request"
    /\ LET tf == IF request.timeframe = "" THEN "1D" ELSE request.timeframe
       IN  IF ~request.ticker \/ request.startDate = 0 \/ request.endDate = 0
           THEN /\ response' = Answer(400, "Missing required fields", NoBody)
                /\ phase' = "done"
                /\ UNCHANGED <<quantity, timeframe, startDate, endDate, calls>>
           ELSE /\ quantity' = quantityOrDefault(request.quantity, 10)
                /\ IF tf \notin Timeframes
                   THEN /\ response' = Answer(400, "Invalid timeframe", NoBody)
                        /\ phase' = "done"
                        /\ UNCHANGED <<timeframe, startDate, endDate, calls>>
                   ELSE /\ timeframe' = tf
                        /\ startDate' = request.startDate
                        /\ endDate' = request.endDate
                        /\ calls' = Append(calls, "candles")
                        /\ phase' = "fetchCandles"
                        /\ UNCHANGED response
    /\ UNCHANGED <<component, candles, resampled, transactions, simResult, stored, idx>>
    /\ UNCHANGED <<divVars, now, income, history, request>>

\* the test left out: a run goes on whatever was fetched
hasNoData_Never(cs) == FALSE

\* if (candles.length === 0)
hasNoData(cs) == Len(cs) = 0

\* the price fetch has returned: no candle ends the run, else the strategy
\* is simulated and the dividends are asked for
GatewayCandlesFetched ==
    /\ component = "gateway"
    /\ phase = "fetchCandles"
    /\ \E answer \in CandleAnswers, path \in MockPaths :
          LET cs == getStockPriceData(answer, startDate, endDate, timeframe, path)
              backtestResults == backtestRedCandleStrategy(cs, quantity, timeframe)
          IN  /\ candles' = cs
              /\ calls' = calls
                            \o (IF answer.outcome = "throws" THEN <<"mockCandles">> ELSE <<>>)
                            \o (IF hasNoData(cs) THEN <<>> ELSE <<"dividends">>)
              /\ IF hasNoData(cs)
                 THEN /\ response' = Answer(400, "No price data available", NoBody)
                      /\ phase' = "done"
                      /\ UNCHANGED <<transactions, simResult>>
                 ELSE /\ transactions' = backtestResults.transactions
                      /\ simResult' = backtestResults
                      /\ phase' = "fetchDividends"
                      /\ UNCHANGED response
    /\ UNCHANGED <<component, timeframe, resampled, quantity, stored, idx>>
    /\ UNCHANGED <<divVars, incVars, request>>

\* checkDividendData has returned: metrics, dividend history, response
GatewayDividendsFetched ==
    /\ component = "gateway"
    /\ phase = "fetchDividends"
    /\ \E fetch \in DividendAnswers, clock \in ClockTicks :
          \E dividendCheck \in {checkDividendData(fetch)} :
          \E stockMetrics \in {stockMetricsOf(simResult, dividendCheck, clock)} :
          \E dividendResults \in {dividendResultsOf(dividendCheck, simResult, startDate,
                                                    endDate, clock)} :
          \E body \in {gatewayBody(candles, simResult, dividendCheck, quantity,
                                  stockMetrics, dividendResults)} :
              /\ fed' = fetch.events
              /\ dividends' = dividendCheck.dividends
              /\ analysis' = dividendCheck.analysis
              /\ now' = clock
              /\ transactions' = IF dividendCheck.hasDividends
                                 THEN sortTransactions(transactions) ELSE transactions
              /\ income' = IF dividendCheck.hasDividends THEN body.dividendCalculationDetails
                           ELSE NoIncome
              /\ history' = body.dividendHistory
              /\ response' = Answer(200, "", body)
              /\ calls' = calls \o (IF fetch.outcome = "throws" THEN <<"dividendsFailed">>
                                     ELSE <<>>)
    /\ phase' = "done"
    /\ UNCHANGED <<component, resVars, quantity, simResult, stored, idx>>
    /\ UNCHANGED <<startDate, endDate, request>>

\* api-gateway routes/backtest.js: the required fields are checked, the
\* timeframe and the quantity get their defaults, the request is forwarded
RouterReceive ==
    /\ component = "router"
    /\ phase = "request"
    /\ IF ~request.ticker \/ request.startDate = 0 \/ request.endDate = 0
       THEN /\ response' = Answer(400, "Missing required fields", NoBody)
            /\ phase' = "done"
            /\ UNCHANGED <<request, calls>>
       ELSE /\ request' = [request EXCEPT
                             !.timeframe = IF @ = "" THEN "1D" ELSE @,
                             !.quantity = [kind |-> "number",
                                           tenths |-> 10 * quantityOrDefault(@, 1)]]
            /\ calls' = Append(calls, "backtest")
            /\ phase' = "ctlReceive"
            /\ UNCHANGED response
    /\ UNCHANGED <<component, resVars, simVars, divVars, incVars>>

\* backtesting-service runBacktest up to the candle fetch: nothing is checked
ControllerReceive ==
    /\ phase = "ctlReceive"
    /\ quantity' = request.quantity.tenths \div 10
    /\ timeframe' = request.timeframe
    /\ startDate' = request.startDate
    /\ endDate' = request.endDate
    /\ calls' = Append(calls, "candles")
    /\ phase' = "ctlFetchCandles"
    /\ UNCHANGED <<component, candles, resampled, transactions, simResult, stored, idx>>
    /\ UNCHANGED <<divVars, now, income, history, request, response>>

\* getDailyCandles has returned: no candle is a 404, else the candles are
\* resampled and the simulation loop starts
ControllerCandlesFetched ==
    /\ phase = "ctlFetchCandles"
    /\ \E answer \in CandleAnswers :
          /\ answer.outcome # "throws"
          /\ LET dailyCandles == getDailyCandles(answer, startDate, endDate)
             IN  /\ candles' = dailyCandles
                 /\ IF hasNoData(dailyCandles)
                    THEN /\ response' = Answer(404, "No data available for the symbol in the given period",
                                               NoBody)
                         /\ phase' = "ctlDone"
                         /\ UNCHANGED <<resampled, idx>>
                    ELSE /\ resampled' = IF timeframe = "1D" THEN dailyCandles
                                         ELSE utilsResampleCandles(dailyCandles, timeframe)
                         /\ idx' = 1
                         /\ phase' = "loop"
                         /\ UNCHANGED response
    /\ UNCHANGED <<component, timeframe, quantity, transactions, simResult, stored>>
    /\ UNCHANGED <<divVars, incVars, request, calls>>

\* getDailyCandles throws: runBacktest rejects, nothing is answered
ControllerCandlesFail ==
    /\ phase = "ctlFetchCandles"
    /\ calls' = Append(calls, "candlesFailed")
    /\ phase' = "failed"
    /\ UNCHANGED <<component, resVars, simVars, divVars, incVars, request, response>>

\* the loop has ended: the dividends are asked for
ControllerLoopEnds ==
    /\ phase = "loop"
    /\ request # NoRequest
    /\ idx > Len(resampled)
    /\ calls' = Append(calls, "dividends")
    /\ phase' = "ctlFetchDividends"
    /\ UNCHANGED <<component, resVars, simVars, divVars, incVars, request, response>>

\* getDividends has returned: the calculations and res.json
ControllerDividendsFetched ==
    /\ phase = "ctlFetchDividends"
    /\ \E fetch \in DividendAnswers, clock \in ClockTicks :
          /\ fetch.outcome = "ok"
          /\ LET divs == getDividends(fetch, startDate, endDate)
                 body == ctlResponse(transactions, resampled, divs, quantity,
                                     startDate, endDate, clock)
             IN  /\ fed' = fetch.events
                 /\ dividends' = divs
                 /\ now' = clock
                 /\ simResult' = ctlTotals(transactions, resampled, quantity)
                 /\ income' = ctlDividendIncome(transactions, divs, startDate, endDate)
                 /\ history' = body.dividendHistory
                 /\ response' = Answer(200, "", body)
    /\ phase' = "ctlDone"
    /\ UNCHANGED <<component, resVars, quantity, transactions, stored, idx>>
    /\ UNCHANGED <<analysis, startDate, endDate, request, calls>>

\* getDividends throws: runBacktest rejects, nothing is answered
ControllerDividendsFail ==
    /\ phase = "ctlFetchDividends"
    /\ calls' = Append(calls, "dividendsFailed")
    /\ phase' = "failed"
    /\ UNCHANGED <<component, resVars, simVars, divVars, incVars, request, response>>

\* api-gateway routes/backtest.js after the forward: the service's answer is
\* relayed; when the service's run was rejected the forward fails, if it ever
\* ends
RouterRelay ==
    /\ component = "router"
    /\ phase \in {"ctlDone", "failed"}
    /\ response' = IF phase = "failed"
                   THEN Answer(500, "Internal server error", NoBody)
                   ELSE IF response.status = 200 THEN response
                   ELSE Answer(response.status, "Backtesting service error", NoBody)
    /\ phase' = "done"
    /\ UNCHANGED <<component, resVars, simVars, divVars, incVars, request, calls>>

InitRun ==
    /\ component \in {"gateway", "router"}
    /\ phase = "request"
    /\ IdleRes
    /\ IdleSim
    /\ IdleDiv
    /\ IdleInc
    /\ request \in Requests
    /\ calls = <<>>
    /\ response = NoResponse

NextRun ==
    \/ GatewayReceive
    \/ GatewayCandlesFetched
    \/ GatewayDividendsFetched
    \/ RouterReceive
    \/ ControllerReceive
    \/ ControllerCandlesFetched
    \/ ControllerCandlesFail
    \/ ControllerBuy
    \/ ControllerSkip
    \/ ControllerPostFails
    \/ ControllerLoopEnds
    \/ ControllerDividendsFetched
    \/ ControllerDividendsFail
    \/ RouterRelay

SpecRun == InitRun /\ [][NextRun]_vars

(***************************************************************************)
(* Claims on a whole run.                                                  *)
(***************************************************************************)
\* the run has answered with a result
HasResult == response.status = 200

\* averageCost and the metrics that divide by totalShares, totalInvestment or
\* averageCost are the number 0
ZeroShareMetricsAreZero(body) ==
    /\ IsZero(body.averageCost)
    /\ IsZero(body.yieldOnCost)
    /\ IsZero(body.pnLPercent)
    /\ IsZero(body.pnLWithDividendPercent)
    /\ IsZero(body.totalDivPercent)

\* the api-gateway's route guards every division
C12_GatewayGuarded ==
    (component = "gateway" /\ HasResult /\ response.body.totalShares = 0)
        => ZeroShareMetricsAreZero(response.body)

\* C12: when no candle is red (totalShares = 0 and totalInvestment = 0),
\* averageCost, yieldOnCost, pnLPercent, pnLWithDividendPercent and
\* totalDivPercent of the result are 0: nothing is infinite or undefined.
C12_ZeroSharesResolveToZero ==
    (HasResult /\ response.body.totalShares = 0) => ZeroShareMetricsAreZero(response.body)

\* a gateway run without any buy on an asset that pays dividends
C12_GatewayWitness ==
    /\ component = "gateway"
    /\ HasResult
    /\ response.body.totalShares = 0
    /\ response.body.hasDividends

\* the dividend fetch of the run has failed
DividendFetchFailed == \E i \in DOMAIN calls : calls[i] = "dividendsFailed"

\* a result computed as if there were no dividend event
ResultWithoutDividends ==
    /\ HasResult
    /\ response.body.totalDividend = 0
    /\ response.body.pnLWithDividend = response.body.pnL
    /\ response.body.dividendHistory = <<>>

\* the api-gateway's route goes on without dividends
C14_GatewayDividendFailureNotFatal ==
    (component = "gateway" /\ DividendFetchFailed) => ResultWithoutDividends

\* C14: a failure of the dividend fetch is not fatal: the run still returns a
\* result, computed as if there were zero dividend events (dividend income 0,
\* pnLWithDividend = pnL).
C14_DividendFailureNotFatal == DividendFetchFailed => ResultWithoutDividends

\* a gateway run with at least one buy whose dividend fetch failed
C14_GatewayWitness ==
    /\ component = "gateway"
    /\ DividendFetchFailed
    /\ HasResult
    /\ response.body.totalShares > 0

Issued(call) == \E i \in DOMAIN calls : calls[i] = call

\* the candle fetch of the run has returned, and returned no candle
ZeroCandlesFetched ==
    /\ Issued("candles")
    /\ phase \notin {"fetchCandles", "ctlFetchCandles"}
    /\ ~Issued("candlesFailed")
    /\ candles = <<>>

\* the answer that tells there is no data: the gateway's 400 'No price data
\* available', the service's 404 (relayed as such by the router)
NoDataAvailable ==
    /\ \/ response.status = 400 /\ response.error = "No price data available"
       \/ response.status = 404
    /\ response.body = NoBody

\* C15: when the candle fetch yields zero candles the run ends with the
\* distinct no-data outcome: the simulator is not run, no transaction is
\* created or persisted, the dividends are not fetched, no result is returned.
C15_NoDataEndsTheRun ==
    ZeroCandlesFetched =>
        /\ NoDataAvailable
        /\ phase \in {"done", "ctlDone"}
        /\ simResult = NoSimResult
        /\ transactions = <<>>
        /\ stored = <<>>
        /\ ~Issued("dividends")

\* a well-formed request whose candle fetch returned nothing
C15_Witness ==
    /\ ZeroCandlesFetched
    /\ startDate <= endDate
    /\ ~Issued("mockCandles")

\* the request lacks a required field or names a timeframe that is not
\* supported (an omitted timeframe is the default one)
InvalidRequest ==
    \/ ~request.ticker
    \/ request.startDate = 0
    \/ request.endDate = 0
    \/ request.timeframe \notin Timeframes \cup {""}

\* rejected at once: nothing fetched, nothing bought, and the answer, once
\* given, is the 400 of a bad request
RejectedAtOnce ==
    /\ ~Issued("candles")
    /\ ~Issued("dividends")
    /\ transactions = <<>>
    /\ stored = <<>>
    /\ phase # "request" => (phase = "done" /\ response.status = 400 /\ response.body = NoBody)

\* the api-gateway's route rejects such a request at once
C16_GatewayRejects == (component = "gateway" /\ InvalidRequest) => RejectedAtOnce

\* C16: a request that lacks ticker, startDate or endDate, or whose timeframe
\* is outside the supported set, is rejected as an invalid request before any
\* candle or dividend fetch is issued and before any transaction is created.
C16_InvalidRequestRejected == InvalidRequest => RejectedAtOnce

\* the gateway has rejected a complete request for its timeframe
C16_GatewayWitness ==
    /\ component = "gateway"
    /\ phase = "done"
    /\ request.ticker /\ request.startDate # 0 /\ request.endDate # 0
    /\ request.timeframe = "2D"
    /\ response.error = "Invalid timeframe"

\* the request's startDate is after its endDate
DatesReversed ==
    /\ request.startDate # 0
    /\ request.endDate # 0
    /\ request.startDate > request.endDate

\* what the code does with such a request: it is processed up to the candle
\* fetch, which finds nothing in the window, and ends as a run without data
C17_ReversedDatesFindNoData ==
    (DatesReversed /\ phase \in {"done", "ctlDone"} /\ Issued("candles")
        /\ ~Issued("candlesFailed"))
        => (NoDataAvailable /\ transactions = <<>>)

\* C17: startDate <= endDate is required: a request whose startDate is after
\* its endDate is rejected as an invalid request rather than processed (no
\* fetch, no simulation).
C17_ReversedDatesRejected == DatesReversed => RejectedAtOnce

\* the gateway has taken the quantity of the request
QuantityTaken == component = "gateway" /\ Issued("candles")

\* the gateway's default 10 replaces a quantity that is omitted, not a number,
\* or cut to 0 by parseInt
C18_GatewayDefaults ==
    (QuantityTaken /\ (request.quantity.kind # "number"
                        \/ request.quantity.tenths \in 0..9))
        => quantity = 10

\* C18: the per-trade quantity the simulator uses is a positive integer,
\* whatever quantity was requested (omitted, not a number, zero, negative),
\* so no transaction has a quantity <= 0.
C18_QuantityPositive ==
    /\ Issued("candles") => quantity > 0
    /\ \A i \in DOMAIN transactions : transactions[i].quantity > 0
    /\ \A i \in DOMAIN stored : stored[i].quantity > 0

\* a buy of a negative quantity
C18_NegativeBuy == \E i \in DOMAIN transactions : transactions[i].quantity < 0

\* the gateway has answered with the metrics of an asset that pays dividends
MetricsOfDividends == component = "gateway" /\ HasResult /\ response.body.hasDividends

\* what the code annualizes when several events were fetched: the amount of
\* the event with the least exDate
C19_OldestAnnualized ==
    MetricsOfDividends =>
        \A d \in Range(dividends) :
            (\A e \in Range(dividends) : d.exDate <= e.exDate)
                => response.body.dividendPerShare = d.amount

\* C19: the dividend amount annualized for lastDividendYield and yieldOnCost
\* is the amount of the most recent event, the fetched valid event with the
\* greatest exDate, whatever the provider's order and the number of events.
C19_MostRecentAnnualized ==
    MetricsOfDividends =>
        /\ response.body.dividendPerShare = mostRecentDividend_Newest(dividends).amount
        /\ response.body.annualDividendPerShare =
              mostRecentDividend_Newest(dividends).amount
                  * getPaymentsPerYear(response.body.dividendFrequency)

\* metrics computed from two events
C19_TwoEvents == MetricsOfDividends /\ Len(dividends) = 2

\* the trade date the rule gives to a candle: the Friday of the candle's ISO
\* week for '1W', the last calendar day of the candle's month for '1M', the
\* candle's own date otherwise
TradeDateByRule(candleDate, tf) ==
    IF tf = "1W"
    THEN CHOOSE d \in (candleDate - 6)..(candleDate + 6) :
            StartOfIsoWeek(d) = StartOfIsoWeek(candleDate) /\ IsoWeekdayOf(d) = 4
    ELSE IF tf = "1M"
    THEN CHOOSE d \in candleDate..(candleDate + 31) :
            /\ YearOf(d) = YearOf(candleDate) /\ MonthOf(d) = MonthOf(candleDate)
            /\ MonthOf(d + 1) # MonthOf(candleDate)
    ELSE candleDate

\* the shares the rule's trade dates give on an ex-date
SharesByRule(exDate) ==
    SumSeq([i \in DOMAIN transactions |->
              IF TradeDateByRule(transactions[i].candleDate, timeframe) <= exDate
              THEN transactions[i].quantity ELSE 0])

\* the api-gateway dates each buy by the rule and accounts with that date
C20_GatewayTradeDates ==
    component = "gateway" =>
        /\ \A i \in DOMAIN transactions :
              transactions[i].date = TradeDateByRule(transactions[i].candleDate, timeframe)
        /\ (HasResult /\ response.body.hasDividends) =>
              \A k \in DOMAIN income.dividendDetails :
                  income.dividendDetails[k].sharesOwned
                      = SharesByRule(income.dividendDetails[k].exDate)

\* the backtesting-service dates the buy of each red candle by the rule
C20_ControllerTradeDates ==
    (component = "router" /\ phase \in {"loop", "ctlFetchDividends", "ctlDone"}) =>
        \A j \in DOMAIN resampled :
            (j < idx /\ resampled[j].open > resampled[j].close) =>
                \E i \in DOMAIN transactions :
                    /\ transactions[i].price = resampled[j].close
                    /\ transactions[i].transactionDate
                          = TradeDateByRule(resampled[j].date, timeframe)

\* C20: the transaction date of a buy is the candle's own date for daily
\* candles, the Friday of the candle's ISO week for weekly candles, the last
\* calendar day of the candle's month for monthly candles, and this trade date
\* is the one compared with exDate in the ownership accounting.
C20_TradeDateByTimeframe == C20_GatewayTradeDates /\ C20_ControllerTradeDates

\* the gateway has accounted a weekly buy against a dividend
C20_GatewayWitness ==
    /\ component = "gateway"
    /\ timeframe = "1W"
    /\ HasResult
    /\ \E k \in DOMAIN income.dividendDetails : income.dividendDetails[k].sharesOwned # 0

(***************************************************************************)
(* Claims on determinism, periods and provider failures.                   *)
(***************************************************************************)
\* the candles the run works on were generated, the provider's fetch having
\* thrown
CandlesGenerated == component = "gateway" /\ Issued("mockCandles")

\* C21: given the same request and the same provider answers, two backtests
\* give the same output: when the price fetch threw, the candles this run
\* works on are the ones every other run with this window and timeframe
\* works on, whatever Math.random() drew.
C21_RunsAgree ==
    CandlesGenerated =>
        \A path \in MockPaths :
            candles = generateMockPriceDataByTimeframe(startDate, endDate, timeframe, path)

\* the generator itself is the only source of disagreement: dates and the
\* first open are the same in every run
C21_GeneratedDatesAgree ==
    CandlesGenerated =>
        \A path \in MockPaths :
            LET other == generateMockPriceDataByTimeframe(startDate, endDate, timeframe, path)
            IN  /\ Len(other) = Len(candles)
                /\ \A i \in 1..Len(candles) : other[i].date = candles[i].date
                /\ Len(candles) > 0 => other[1].open = candles[1].open

\* the input candles of the calendar month of a date, in the order given
MonthCandles(day) ==
    LET InMonth(c) == StartOfMonth(c.date) = StartOfMonth(day)
    IN  SelectSeq(candles, InMonth)

\* the resampler that ran, applied to another candle list
ResampleAlone(cs) ==
    IF phase = "resampled" THEN resampleCandles(cs, "1M") ELSE utilsResampleCandles(cs, "1M")

\* C22: daily-to-monthly resampling commutes with restriction to one month:
\* for every month that has candles, the output holds exactly one candle of
\* that month and it is the single candle obtained by resampling that month's
\* daily candles alone.
C22_MonthCommutes ==
    (ResampleDone /\ timeframe = "1M") =>
        \A c \in Range(candles) :
            /\ Len(ResampleAlone(MonthCandles(c.date))) = 1
            /\ Cardinality({i \in DOMAIN resampled :
                              StartOfMonth(resampled[i].date) = StartOfMonth(c.date)}) = 1
            /\ \E i \in DOMAIN resampled : resampled[i] = ResampleAlone(MonthCandles(c.date))[1]

\* C22 witness: a month of two candles, fed latest first, resampled together
\* with candles of other months
C22_Witness ==
    /\ ResampleDone
    /\ timeframe = "1M"
    /\ Len(candles) = 3
    /\ Len(resampled) = 2
    /\ \E i, j \in DOMAIN candles :
          /\ i < j
          /\ candles[i].date = DayOf(2024, 2, 5)
          /\ candles[j].date = DayOf(2024, 2, 1)
          /\ candles[i].open # candles[j].open

\* the calendar period of a date under a period rule: ISO week, month,
\* quarter, half-year or year
CalendarPeriod(day, tf) ==
    IF tf = "1W" THEN <<"week", StartOfIsoWeek(day)>>
    ELSE IF tf = "1M" THEN <<"month", YearOf(day), MonthOf(day)>>
    ELSE IF tf = "3M" THEN <<"quarter", YearOf(day), MonthOf(day) \div 3>>
    ELSE IF tf = "6M" THEN <<"half", YearOf(day), MonthOf(day) \div 6>>
    ELSE <<"year", YearOf(day)>>

\* the groups the resampler that ran has aggregated
GroupsOfRun ==
    IF phase = "resampled" THEN groupCandles(SortByDate(candles), timeframe, <<>>)
    ELSE utilsGroupCandles(SortByDate(candles), timeframe, <<>>)

AggregatedTogether(a, b) ==
    \E i \in DOMAIN GroupsOfRun :
        a \in Range(GroupsOfRun[i].members) /\ b \in Range(GroupsOfRun[i].members)

\* one output candle per group, and two input candles share a group exactly
\* when they share a calendar period
PeriodsAreCalendarPeriods ==
    /\ Len(resampled) = Len(GroupsOfRun)
    /\ \A a, b \in Range(candles) :
          AggregatedTogether(a, b)
              <=> CalendarPeriod(a.date, timeframe) = CalendarPeriod(b.date, timeframe)

\* the market-data-service resampler follows the calendar for its five rules
C23_MarketDataPeriods ==
    (phase = "resampled" /\ timeframe # "1D") => PeriodsAreCalendarPeriods

\* the backtesting-service resampler follows it for weeks and months
C23_ServiceWeeksAndMonths ==
    (phase = "utilsResampled" /\ timeframe \in {"1W", "1M"}) => PeriodsAreCalendarPeriods

\* C23: for each of the five period rules, two daily candles are aggregated
\* into the same output candle if and only if they lie in the same calendar
\* period of that rule (ISO week, month, quarter, half-year, year).
C23_SamePeriodSameCandle ==
    (ResampleDone /\ timeframe # "1D") => PeriodsAreCalendarPeriods

\* candles of two quarters have been resampled by quarter
C23_TwoQuarters ==
    /\ ResampleDone
    /\ timeframe = "3M"
    /\ \E a, b \in Range(candles) :
          CalendarPeriod(a.date, "3M") # CalendarPeriod(b.date, "3M")

\* the candle fetch of the run threw (or timed out)
CandleFetchFailed == Issued("mockCandles") \/ Issued("candlesFailed")

\* the answer carries no figure: it is not a result, or it is the no-data
\* outcome
NoFigures == ~HasResult \/ NoDataAvailable

\* backtesting-service behind the router: a failed candle fetch ends the run
\* with an error and without figures
C24_ServiceGivesNoFigures ==
    (component = "router" /\ CandleFetchFailed) =>
        /\ NoFigures
        /\ transactions = <<>>
        /\ stored = <<>>

\* C24: when the candle fetch throws or times out, the backtest ends with an
\* empty result or with NoDataAvailable, never with figures computed from
\* candles the provider did not supply.
C24_FailedFetchGivesNoFigures ==
    (CandleFetchFailed /\ phase = "done") => NoFigures

\* the api-gateway has answered a run whose candle fetch threw with figures
\* of generated candles
C24_FiguresOfGeneratedCandles ==
    /\ CandlesGenerated
    /\ phase = "done"
    /\ HasResult
    /\ response.body.totalShares > 0
    /\ \A path \in MockPaths :
          candles = generateMockPriceDataByTimeframe(startDate, endDate, timeframe, path)
              => path = "down"

(***************************************************************************)
(* Claims on the operations' inputs and on the analyzer's edge cases.      *)
(***************************************************************************)
\* an analyzer has run on the list fed
FrequencyAnalyzed == phase \in {"analyzed", "gwAnalyzed"}

\* the analyzers keep the events of the list handed to them, each once
C25_SameEventsKept ==
    FrequencyAnalyzed =>
        /\ Len(dividends) = Len(fed)
        /\ Range(dividends) = Range(fed)

\* C25: a core operation leaves the sequences passed to it unchanged: after
\* analyzeFrequency the list handed to it holds the same elements in the same
\* order as before the call.
C25_InputsUnchanged == FrequencyAnalyzed => dividends = fed

\* two events handed over oldest first have been analyzed
C25_FedOldestFirst ==
    /\ FrequencyAnalyzed
    /\ Len(fed) = 2
    /\ fed[1].exDate < fed[2].exDate

\* an analyzer of the dividend-service has been given no event at all
ZeroEventsAnalyzed == phase \in {"analyzed", "frequencyGot"} /\ fed = <<>>

\* the analysis states a sample size, and it is 0
SampleSizeZero == "dataPoints" \in analysis.fields /\ analysis.dataPoints = 0

\* zero events give a default frequency with confidence low, without error
C26_ZeroEventsDefaultLow ==
    ZeroEventsAnalyzed =>
        /\ analysis.frequency \in {"quarterly", "annual"}
        /\ analysis.confidence = "low"
        /\ {"frequency", "confidence", "reason"} \subseteq analysis.fields

\* getDividendFrequency states the sample size 0 itself
C26_GetDividendFrequencySampleSize ==
    (ZeroEventsAnalyzed /\ phase = "frequencyGot") => SampleSizeZero

\* C26: analyzing zero dividend events yields the default frequency with
\* confidence low and a sample size of 0.
C26_ZeroEventsSampleSizeZero ==
    ZeroEventsAnalyzed =>
        /\ analysis.frequency \in {"quarterly", "annual"}
        /\ analysis.confidence = "low"
        /\ SampleSizeZero

\* analyzeFrequency has been called with an empty list
C26_EmptyListAnalyzed == ZeroEventsAnalyzed /\ phase = "analyzed"

\* the analysis is a match of the cascade
FromCascade ==
    /\ analysis.fields = MatchFields
    /\ analysis.frequency \in {"monthly", "quarterly", "semi-annual", "annual"}
    /\ analysis.dataPoints >= 1
    /\ analysis.daysAnalyzed \in {35, 100, 200, 365}

\* C27: for every non-empty list of valid events the annual rule matches at
\* the latest (the most recent event is within 365 days of itself), so
\* analyzeFrequency returns a match of the cascade and never the irregular
\* answer, the interval-mean estimate or the final quarterly default.
C27_AlwaysFromCascade ==
    (phase = "analyzed" /\ fed # <<>>) =>
        /\ FromCascade
        /\ CountWithin(365) >= 1
        /\ "details" \notin analysis.fields
        /\ "avgInterval" \notin analysis.fields

\* C27 witness: events more than a year apart, of which only the most recent
\* one is inside the annual window
C27_Witness ==
    /\ phase = "analyzed"
    /\ Len(fed) >= 2
    /\ CountWithin(365) = 1
    /\ analysis.frequency = "annual"

(***************************************************************************)
(* Claims on the yearly breakdown, the transaction dates and the stored    *)
(* transactions.                                                           *)
(***************************************************************************)
\* the api-gateway has answered a backtest of an asset that has dividends
ResultWithDividends == component = "gateway" /\ HasResult /\ response.body.hasDividends

\* the per-year totals of the dividend history, and of yearlyDividends, add
\* up to the total dividend income of the response
YearlyTotalsAddUp ==
    /\ SumSeq([k \in DOMAIN response.body.dividendHistory |->
                  response.body.dividendHistory[k].totalAmount])
          = response.body.totalDividend
    /\ SumSeq([k \in DOMAIN response.body.yearlyDividends |->
                  response.body.yearlyDividends[k].totalDividend])
          = response.body.totalDividend

\* the breakdown is complete when the frequency inferred is monthly
C28_MonthlyAddsUp ==
    (ResultWithDividends /\ response.body.dividendFrequency = "monthly") => YearlyTotalsAddUp

\* C28: for every backtest whose asset has dividends and for every inferred
\* frequency, the per-year totals of the dividend history (and of
\* yearlyDividends) add up to totalDividendIncome.
C28_YearlyTotalsAddUp == ResultWithDividends => YearlyTotalsAddUp

\* a dividend of an irregular payer has been attributed to shares held
C28_IrregularWithIncome ==
    /\ ResultWithDividends
    /\ response.body.dividendFrequency = "irregular"
    /\ response.body.totalDividend > 0
    /\ Len(response.body.dividendHistory) = 1
    /\ response.body.dividendHistory[1].totalAmount = 0

\* the dates of the transactions the run has emitted so far
EmittedDates ==
    IF component = "gateway" THEN {transactions[j].date : j \in DOMAIN transactions}
    ELSE {transactions[j].transactionDate : j \in DOMAIN transactions}

InsideWindow(d) == startDate <= d /\ d <= endDate

\* backtesting-service behind the router: a buy is dated with its candle
C29_ServiceInsideWindow ==
    component = "router" => \A d \in EmittedDates : InsideWindow(d)

\* the api-gateway's daily buys are dated with their candle
C29_GatewayDailyInsideWindow ==
    (component = "gateway" /\ timeframe = "1D") => \A d \in EmittedDates : InsideWindow(d)

\* C29: every transaction emitted by a backtest has a transaction date inside
\* the requested window [startDate, endDate], for every timeframe.
C29_TransactionsInsideWindow ==
    component \in {"gateway", "router"} => \A d \in EmittedDates : InsideWindow(d)

\* the api-gateway has dated a buy of a monthly candle of the window
C29_MonthlyBuy ==
    /\ component = "gateway"
    /\ timeframe = "1M"
    /\ \E j \in DOMAIN transactions :
          /\ InsideWindow(transactions[j].candleDate)
          /\ transactions[j].date = EndOfMonth(transactions[j].candleDate)
          /\ transactions[j].date > endDate

\* a run of the backtesting-service has ended: it has answered, or it was
\* rejected
ServiceRunEnded == component = "router" /\ phase \in {"ctlDone", "failed", "done"}

\* a run that returned a result has stored exactly the transactions its
\* figures were computed from
C30_CompletedRunStoredInFull ==
    (ServiceRunEnded /\ HasResult) => stored = transactions

\* C30: the transactions stored under a run's sessionId are never a partial
\* run: at the end of any run they are exactly the transaction list of the
\* result returned, or none at all when the run failed.
C30_StoredNeverPartial ==
    ServiceRunEnded => (IF HasResult THEN stored = transactions ELSE stored = <<>>)

\* a run that had stored a buy failed at its dividend fetch
C30_StoredThenFailed ==
    /\ ServiceRunEnded
    /\ ~HasResult
    /\ Issued("dividendsFailed")
    /\ stored # <<>>

====
